---- MODULE Spec2Model ----
(***************************************************************************)
(* A model of the resource-embedding pipeline of html-to-image:            *)
(*   - the Resource Cache       (src/src/getBlobFromURL.ts)                *)
(*   - the font orchestrator    (src/src/embedWebFonts.ts, embedFonts)     *)
(*   - the CSS rule extractor   (src/src/embedWebFonts.ts, parseCSS)       *)
(* Strings are sequences of one-character strings, so that the regular     *)
(* expressions and String methods of the source are modelled by what they  *)
(* do to the characters.                                                   *)
(***************************************************************************)
EXTENDS Integers, Sequences, FiniteSets, TLC

VARIABLES
    \* ---- Resource Cache (getBlobFromURL.ts) ----
    cache,      \* the module-level `cache` object: cache key -> future id
    futures,    \* the futures created by getBlobFromURL, by id (1..Len)
    requests,   \* the network requests issued through fetchWithTimeout
    lastCall,   \* the most recent getBlobFromURL call and what it returned
    nCalls,     \* number of getBlobFromURL calls made
    \* ---- embedFonts (embedWebFonts.ts) ----
    raw,        \* the style-sheet text awaited from meta.cssText
    cssText,    \* the shared mutable buffer `let cssText`
    tasks,      \* loadFonts: one task per matched url(...) reference
    fetched,    \* the URLs handed to window.fetch by embedFonts, in order
    timerFired, \* the 5000 ms timer callback has run
    returned,   \* value embedFonts resolved with (NotYet before the race settles)
    settledBy,  \* "idle" before the call, "none" while racing, then "all" or "timeout"
    doneAtReturn, \* the tasks that had embedded their payload when the race settled
    \* ---- parseCSS (embedWebFonts.ts) ----
    source,         \* argument of parseCSS
    parseText,      \* the local `cssText` of parseCSS
    normalized,     \* the text as it was after comment and whitespace stripping
    result,         \* the local `result` of parseCSS, returned at the end
    resultAt,       \* where in `normalized` the match of each result entry began
    pc,             \* where parseCSS is: "idle", "keyframes", "scan", "done"
    keyframesIndex, \* keyframesRegex.lastIndex
    importIndex,    \* importRegex.lastIndex
    unifiedIndex,   \* unifiedRegex.lastIndex
    cssFetchCache,  \* embedWebFonts.ts: the module-level object `cssFetchCache`
    cssFutures,     \* the futures fetchCSS created, in creation order
    cssRequests,    \* the URLs fetchCSS handed to window.fetch, in order
    lastFetch,      \* the most recent fetchCSS call and what it returned
    nFetches,       \* number of fetchCSS calls made
    locationProtocol, \* window.location.protocol
    resolveCall,    \* arguments of the most recent resolveUrl call
    resolvedUrl,    \* what that call returned
    docsCreated,    \* documents created by createHTMLDocument so far
    nResolves,      \* number of resolveUrl calls made
    styleSheets,    \* the document's style sheets, as getCSSRules gets them
    initialSheets,  \* the style sheets as they were when getCSSRules was called
    deferreds,      \* getCSSRules: the tasks pushed onto `deferreds`
    ret,            \* getCSSRules: the list `ret`
    rulesPc,        \* getCSSRules: "idle", "called", "inlining", "collected", "rejected"
    errorsLogged,   \* number of console.error calls of getCSSRules
    clonedNode,     \* embedWebFonts: the node handed in (ownerDocument, childNodes)
    fontEmbedCSS,   \* options.fontEmbedCSS
    sheetsEnumerated, \* times node.ownerDocument.styleSheets was read
    fontTasks,      \* getWebFontCSS: one embedResources task per web-font rule
    webCssText,     \* the cssText embedWebFonts' .then callback receives
    webError,       \* the reason getWebFontCSS rejected with (Null if it has not)
    webPc           \* embedWebFonts: "idle", "called", "harvested", "embedding",
                    \* "resolved", "inserted", "rejected"

vars == <<cache, futures, requests, lastCall, nCalls,
          raw, cssText, tasks, fetched, timerFired, returned, settledBy, doneAtReturn,
          source, parseText, normalized, result, resultAt, pc,
          keyframesIndex, importIndex, unifiedIndex,
          cssFetchCache, cssFutures, cssRequests, lastFetch, nFetches,
          locationProtocol, resolveCall, resolvedUrl, docsCreated, nResolves,
          styleSheets, initialSheets, deferreds, ret, rulesPc, errorsLogged,
          clonedNode, fontEmbedCSS, sheetsEnumerated, fontTasks, webCssText,
          webError, webPc>>

cacheVars == <<cache, futures, requests, lastCall, nCalls>>
embedVars == <<raw, cssText, tasks, fetched, timerFired, returned, settledBy, doneAtReturn>>
parseVars == <<source, parseText, normalized, result, resultAt, pc,
               keyframesIndex, importIndex, unifiedIndex>>
fetchVars == <<cssFetchCache, cssFutures, cssRequests, lastFetch, nFetches>>
resolveVars == <<locationProtocol, resolveCall, resolvedUrl, docsCreated, nResolves>>
rulesVars == <<styleSheets, initialSheets, deferreds, ret, rulesPc, errorsLogged>>
webVars == <<clonedNode, fontEmbedCSS, sheetsEnumerated, fontTasks, webCssText,
             webError, webPc>>
sheetVars == <<fetchVars, resolveVars, rulesVars, webVars>>
notFetch == <<cacheVars, embedVars, parseVars, resolveVars, rulesVars, webVars>>
notResolve == <<cacheVars, embedVars, parseVars, fetchVars, rulesVars, webVars>>
notRules == <<cacheVars, embedVars, parseVars, resolveVars, webVars>>
notWeb == <<cacheVars, embedVars, parseVars, fetchVars, resolveVars>>

-----------------------------------------------------------------------------
(* Bounds of the model *)

\* getBlobFromURL calls in one run of the Resource Cache (SpecCache)
MaxCalls == 2
\* getBlobFromURL calls in one run over all the URLs (SpecKeys)
MaxKeyCalls == 2
\* getBlobFromURL calls in one run over the placeholder options (SpecFail)
MaxFailCalls == 2
\* pieces (references or plain text) a style sheet handed to embedFonts is built from
MaxPieces == 3
\* lexical items a text handed to parseCSS is built from
MaxItems == 4
\* calls of fetchCSS
MaxFetches == 3
\* calls of resolveUrl
MaxResolves == 2

-----------------------------------------------------------------------------
(* String helpers: the String and RegExp operations the source uses *)

\* s.indexOf(c) + 1: position of the first c in s, 0 if none
IndexOf(s, c) ==
    IF \E i \in 1..Len(s) : s[i] = c
    THEN CHOOSE i \in 1..Len(s) : s[i] = c /\ \A j \in 1..(i - 1) : s[j] # c
    ELSE 0

\* position of the last c in s, 0 if none
LastIndexOf(s, c) ==
    IF \E i \in 1..Len(s) : s[i] = c
    THEN CHOOSE i \in 1..Len(s) : s[i] = c /\ \A j \in (i + 1)..Len(s) : s[j] # c
    ELSE 0

\* sub occurs in s starting at position i
OccursAt(s, sub, i) ==
    /\ i >= 1
    /\ i + Len(sub) - 1 <= Len(s)
    /\ \A j \in 1..Len(sub) : s[i + j - 1] = sub[j]

\* s.includes(sub)
Contains(s, sub) == \E i \in 1..(Len(s) + 1) : OccursAt(s, sub, i)

\* position of the first occurrence of sub in s, 0 if none
FirstOccurrence(s, sub) ==
    IF Contains(s, sub)
    THEN CHOOSE i \in 1..(Len(s) + 1) :
            OccursAt(s, sub, i) /\ \A j \in 1..(i - 1) : ~OccursAt(s, sub, j)
    ELSE 0

\* s.replace(sub, by) with a string pattern: only the first occurrence is replaced
ReplaceFirst(s, sub, by) ==
    LET i == FirstOccurrence(s, sub)
    IN  IF i = 0 THEN s
        ELSE SubSeq(s, 1, i - 1) \o by \o SubSeq(s, i + Len(sub), Len(s))

\* s.split(/,/) : the fields between the separators, in order
RECURSIVE Split(_, _)
Split(s, sep) ==
    LET i == IndexOf(s, sep)
    IN  IF i = 0 THEN <<s>>
        ELSE <<SubSeq(s, 1, i - 1)>> \o Split(SubSeq(s, i + 1, Len(s)), sep)

\* the value JavaScript gives for a missing array element or property
Undefined == <<"undefined">>

\* null (or undefined) where a string is expected
Null == <<"NULL">>

-----------------------------------------------------------------------------
(* getBlobFromURL.ts: cache key *)

StripQueryKeepsQuery(url) == url

\* url.replace(/\?.*/, '')
StripQuery(url) ==
    LET i == IndexOf(url, "?")
    IN  IF i = 0 THEN url ELSE SubSeq(url, 1, i - 1)

\* key.replace(/.*\//, ''): the greedy .* runs to the last "/"
StripThroughLastSlash(key) ==
    LET i == LastIndexOf(key, "/")
    IN  IF i = 0 THEN key ELSE SubSeq(key, i + 1, Len(key))

\* /ttf|otf|eot|woff2?/i.test(key): an unanchored search anywhere in the key
FontRegexTest(key) ==
    \/ Contains(key, <<"t", "t", "f">>)
    \/ Contains(key, <<"o", "t", "f">>)
    \/ Contains(key, <<"e", "o", "t">>)
    \/ Contains(key, <<"w", "o", "f", "f">>)

getCacheKey(url, includeQueryParams) ==
    LET key == IF includeQueryParams THEN url ELSE StripQuery(url)
    IN  IF FontRegexTest(key) THEN StripThroughLastSlash(key) ELSE key

-----------------------------------------------------------------------------
(* The inputs of the Resource Cache model.  "c" and "o" stand for two hosts  *)
(* (https://cdn.example.com, https://other.example.com); "otf" is a host     *)
(* whose name happens to contain the letters of a font extension (as in      *)
(* hotfix.example.com).                                                      *)

\* c/a.ttf?1 and o/a.ttf?2 : the same font file name on two hosts
FontCdn   == <<"c", "/", "a", ".", "t", "t", "f", "?", "1">>
FontOther == <<"o", "/", "a", ".", "t", "t", "f", "?", "2">>
\* c/b.ttf?/z : a font whose query string contains a "/"
FontSlashQuery == <<"c", "/", "b", ".", "t", "t", "f", "?", "/", "z">>
\* otf/x/p.g and otf/y/p.g : two images, same file name, different directories
ImgX == <<"o", "t", "f", "/", "x", "/", "p", ".", "g">>
ImgY == <<"o", "t", "f", "/", "y", "/", "p", ".", "g">>
\* c/x/p.g?1 and c/y/p.g : the same on a host with an ordinary name
ImgCX == <<"c", "/", "x", "/", "p", ".", "g", "?", "1">>
ImgCY == <<"c", "/", "y", "/", "p", ".", "g">>

URLs == {FontCdn, FontOther, FontSlashQuery, ImgX, ImgY, ImgCX, ImgCY}

\* options.imagePlaceholder: unset, "d,p", "d,p,q" (a payload with a comma), "d"
Placeholders == {<<>>, <<"d", ",", "p">>, <<"d", ",", "p", ",", "q">>, <<"d">>}

\* the Options fields getBlobFromURL reads
OptionSets ==
    [includeQueryParams : BOOLEAN, cacheBust : BOOLEAN, imagePlaceholder : Placeholders]

\* Content-Type header values of a response; "" stands for a missing header
ContentTypes == {"", "font/ttf"}

\* the rejection reasons that reach `failed`
\*   TypeError     : window.fetch or res.blob() failed (has a message)
\*   AbortError    : the 3000 ms timer aborted the request (has a message)
\*   ProgressEvent : reader.onerror = reject passes the event (no message)
Reasons == {"TypeError", "AbortError", "ProgressEvent"}

-----------------------------------------------------------------------------
(* getBlobFromURL.ts: getBlobFromURL *)

CacheHitNever(cacheKey) == FALSE

CacheHitRetryFailed(cacheKey) ==
    /\ cacheKey \in DOMAIN cache
    /\ futures[cache[cacheKey]].outcome \notin Reasons

\* cache[cacheKey] != null
CacheHit(cacheKey) == cacheKey \in DOMAIN cache

\* cache[cacheKey] = deferred
CacheStore(cacheKey, id) ==
    [k \in DOMAIN cache \cup {cacheKey} |-> IF k = cacheKey THEN id ELSE cache[k]]

\* url += (/\?/.test(url) ? '&' : '?') + new Date().getTime()
\* "T" stands for the digits of the timestamp
CacheBustUrl(url) == url \o <<IF IndexOf(url, "?") # 0 THEN "&" ELSE "?", "T">>

\* the placeholder text computed by `failed`: parts = imagePlaceholder.split(/,/),
\* and parts[1] when it is there and not empty
PlaceholderContent(imagePlaceholder) ==
    IF imagePlaceholder = <<>> THEN <<>>
    ELSE LET parts == Split(imagePlaceholder, ",")
         IN  IF Len(parts) >= 2 /\ parts[2] # <<>> THEN parts[2] ELSE <<>>

\* `failed` logs msg when it is truthy: reason.message of an Error, undefined
\* for the ProgressEvent of reader.onerror
FailureLogged(reason) == reason # "ProgressEvent"

FailedMetadataWholePlaceholder(imagePlaceholder) ==
    [blob |-> imagePlaceholder, contentType |-> ""]

\* the Metadata `failed` returns
FailedMetadata(imagePlaceholder) ==
    [blob |-> PlaceholderContent(imagePlaceholder), contentType |-> ""]

\* util: parseDataUrlContent = dataURL.split(/,/)[1]
parseDataUrlContent(dataURL) ==
    LET parts == Split(dataURL, ",")
    IN  IF Len(parts) >= 2 THEN parts[2] ELSE Undefined

\* reader.result of readAsDataURL: "data:<type>;base64,<payload>".  The payload
\* is written as the path that served it.
DataUrlOf(url) == <<"d", ":", ";", ",">> \o StripQuery(url)

NoValue == [blob |-> <<>>, contentType |-> ""]

\* observation kept in lastCall: the future stored under the key when the call
\* was made, 0 if there was none
StoredBefore(cacheKey) == IF cacheKey \in DOMAIN cache THEN cache[cacheKey] ELSE 0

KeyedUrlAfterCacheBust(url, options) ==
    IF options.cacheBust THEN CacheBustUrl(url) ELSE url

\* line 29: the key is computed from `url` before line 39 reassigns it
KeyedUrl(url, options) == url

GetBlobFromURL(url, options) ==
    LET cacheKey == getCacheKey(KeyedUrl(url, options), options.includeQueryParams)
    IN  /\ nCalls' = nCalls + 1
        /\ IF CacheHit(cacheKey)
           THEN /\ lastCall' = [url |-> url,
                                includeQueryParams |-> options.includeQueryParams,
                                cacheBust |-> options.cacheBust,
                                key |-> cacheKey, had |-> StoredBefore(cacheKey),
                                issued |-> FALSE, returned |-> cache[cacheKey]]
                /\ UNCHANGED <<cache, futures, requests>>
           ELSE LET id == Len(futures) + 1
                    requestUrl == IF options.cacheBust THEN CacheBustUrl(url) ELSE url
                IN  /\ requests' = Append(requests, [key |-> cacheKey, url |-> requestUrl])
                    /\ futures' = Append(futures,
                           [key |-> cacheKey, url |-> requestUrl,
                            imagePlaceholder |-> options.imagePlaceholder,
                            stage |-> "fetching", outcome |-> "pending",
                            contentType |-> "", value |-> NoValue, logged |-> FALSE])
                    /\ cache' = CacheStore(cacheKey, id)
                    /\ lastCall' = [url |-> url,
                                    includeQueryParams |-> options.includeQueryParams,
                                    cacheBust |-> options.cacheBust,
                                    key |-> cacheKey, had |-> StoredBefore(cacheKey),
                                    issued |-> TRUE, returned |-> id]
        /\ UNCHANGED <<embedVars, parseVars, sheetVars>>

\* .catch(failed): the future is fulfilled with the placeholder Metadata
Failed(id, reason) ==
    /\ futures' = [futures EXCEPT
           ![id].stage = "fulfilled",
           ![id].outcome = reason,
           ![id].contentType = "",
           ![id].value = FailedMetadata(futures[id].imagePlaceholder),
           ![id].logged = FailureLogged(reason)]
    /\ UNCHANGED <<cache, requests, lastCall, nCalls, embedVars, parseVars, sheetVars>>

\* window.fetch resolves with a response: res.blob() and the FileReader follow
FetchResolve(id, contentType) ==
    /\ futures[id].stage = "fetching"
    /\ futures' = [futures EXCEPT ![id].stage = "reading",
                                  ![id].contentType = contentType]
    /\ UNCHANGED <<cache, requests, lastCall, nCalls, embedVars, parseVars, sheetVars>>

\* window.fetch rejects (network error)
FetchReject(id) ==
    /\ futures[id].stage = "fetching"
    /\ Failed(id, "TypeError")

\* fetchWithTimeout: the timer fires after timeoutInMs while the request is
\* pending; fetchAbortController.abort() makes window.fetch reject
FetchTimeout(id) ==
    /\ futures[id].stage = "fetching"
    /\ Failed(id, "AbortError")

\* reader.onloadend after a successful read, then parseDataUrlContent
ReaderLoadEnd(id) ==
    /\ futures[id].stage = "reading"
    /\ futures' = [futures EXCEPT
           ![id].stage = "fulfilled",
           ![id].outcome = "ok",
           ![id].value = [blob |-> parseDataUrlContent(DataUrlOf(futures[id].url)),
                          contentType |-> futures[id].contentType]]
    /\ UNCHANGED <<cache, requests, lastCall, nCalls, embedVars, parseVars, sheetVars>>

\* res.blob() rejects
BlobReject(id) ==
    /\ futures[id].stage = "reading"
    /\ Failed(id, "TypeError")

\* reader.onerror = reject
ReaderError(id) ==
    /\ futures[id].stage = "reading"
    /\ Failed(id, "ProgressEvent")

\* embedFonts has not resolved
NotYet == <<"NotYet">>

NoCall == [url |-> <<>>, includeQueryParams |-> FALSE, cacheBust |-> FALSE, key |-> <<>>,
           had |-> 0, issued |-> FALSE, returned |-> 0]

CacheIdle ==
    /\ cache = <<>>
    /\ futures = <<>>
    /\ requests = <<>>
    /\ lastCall = NoCall
    /\ nCalls = 0

EmbedIdle ==
    /\ raw = <<>>
    /\ cssText = <<>>
    /\ tasks = <<>>
    /\ fetched = <<>>
    /\ timerFired = FALSE
    /\ returned = NotYet
    /\ settledBy = "idle"
    /\ doneAtReturn = {}

ParseIdle ==
    /\ source = <<>>
    /\ parseText = <<>>
    /\ normalized = <<>>
    /\ result = <<>>
    /\ resultAt = <<>>
    /\ pc = "idle"
    /\ keyframesIndex = 0
    /\ importIndex = 0
    /\ unifiedIndex = 0

NoFetch == [url |-> <<>>, had |-> 0, issued |-> FALSE, returned |-> 0]

FetchIdle ==
    /\ cssFetchCache = <<>>
    /\ cssFutures = <<>>
    /\ cssRequests = <<>>
    /\ lastFetch = NoFetch
    /\ nFetches = 0

NoResolve == [url |-> <<>>, baseUrl |-> <<>>, docsBefore |-> 0]

ResolveIdle ==
    /\ locationProtocol = <<"https", ":">>
    /\ resolveCall = NoResolve
    /\ resolvedUrl = <<>>
    /\ docsCreated = 0
    /\ nResolves = 0

RulesIdle ==
    /\ styleSheets = <<>>
    /\ initialSheets = <<>>
    /\ deferreds = <<>>
    /\ ret = <<>>
    /\ rulesPc = "idle"
    /\ errorsLogged = 0

NoNode == [ownerDocument |-> Null, childNodes |-> <<>>]

WebIdle ==
    /\ clonedNode = NoNode
    /\ fontEmbedCSS = Undefined
    /\ sheetsEnumerated = 0
    /\ fontTasks = <<>>
    /\ webCssText = NotYet
    /\ webError = Null
    /\ webPc = "idle"

SheetIdle == FetchIdle /\ ResolveIdle /\ RulesIdle /\ WebIdle

InitCache == CacheIdle /\ EmbedIdle /\ ParseIdle /\ SheetIdle

\* what the futures do once created: the network and the FileReader answer
Settle(contentTypes) ==
    \/ \E id \in 1..Len(futures), contentType \in contentTypes : FetchResolve(id, contentType)
    \/ \E id \in 1..Len(futures) : FetchReject(id)
    \/ \E id \in 1..Len(futures) : FetchTimeout(id)
    \/ \E id \in 1..Len(futures) : ReaderLoadEnd(id)
    \/ \E id \in 1..Len(futures) : BlobReject(id)
    \/ \E id \in 1..Len(futures) : ReaderError(id)

\* SpecCache: concurrent callers of the Resource Cache over two font URLs that
\* share a file name, with and without a placeholder
CacheURLs == {FontCdn, FontOther}
CacheOptions == {o \in OptionSets : o.imagePlaceholder \in {<<>>, <<"d", ",", "p">>}}

NextCache ==
    \/ /\ nCalls < MaxCalls
       /\ \E url \in CacheURLs, options \in CacheOptions : GetBlobFromURL(url, options)
    \/ Settle({"font/ttf"})

SpecCache == InitCache /\ [][NextCache]_vars

\* SpecKeys: the cache keys of every URL, with cacheBust and imagePlaceholder unset
KeyOptions == {o \in OptionSets : ~o.cacheBust /\ o.imagePlaceholder = <<>>}

NextKeys ==
    \/ /\ nCalls < MaxKeyCalls
       /\ \E url \in URLs, options \in KeyOptions : GetBlobFromURL(url, options)
    \/ Settle({"font/ttf"})

SpecKeys == InitCache /\ [][NextKeys]_vars

\* SpecFail: the outcomes of one resource under every placeholder option and
\* both kinds of response header
FailOptions == {o \in OptionSets : ~o.includeQueryParams}

NextFail ==
    \/ /\ nCalls < MaxFailCalls
       /\ \E url \in {FontCdn, ImgCX}, options \in FailOptions : GetBlobFromURL(url, options)
    \/ Settle(ContentTypes)

SpecFail == InitCache /\ [][NextFail]_vars

-----------------------------------------------------------------------------
(* util.ts: resolveUrl and its calls *)

\* util.ts: resolveUrl.  A URL is a sequence of tokens: a run of letters
\* (such as "https" or "host"), or one other character
LetterRuns ==
    {"https", "http", "HTTP", "data", "mailto", "host", "cdn", "a", "b", "d", "f", "x", "y", "s"}

\* number of tokens of the match of /^[a-z]+:/i, 0 if there is none
SchemeMatch(url) ==
    LET runs == { n \in 1..Len(url) : \A k \in 1..n : url[k] \in LetterRuns }
    IN  IF runs = {} THEN 0
        ELSE LET n == CHOOSE x \in runs : \A y \in runs : y <= x
             IN  IF n + 1 <= Len(url) /\ url[n + 1] = ":" THEN n + 1 ELSE 0

\* url.match(/^[a-z]+:\/\//i)
MatchesSchemeSlashSlash(url) ==
    /\ SchemeMatch(url) # 0
    /\ SchemeMatch(url) + 2 <= Len(url)
    /\ url[SchemeMatch(url) + 1] = "/"
    /\ url[SchemeMatch(url) + 2] = "/"

\* url.match(/^\/\//)
MatchesSlashSlash(url) == Len(url) >= 2 /\ url[1] = "/" /\ url[2] = "/"

\* url.match(/^[a-z]+:/i)
MatchesScheme(url) == SchemeMatch(url) # 0

\* the URL parser behind a.href takes a reference for absolute when it starts
\* with a scheme, which may hold "-" besides letters
ParsesAsAbsolute(url) ==
    \E n \in 1..(Len(url) - 1) :
        /\ url[n + 1] = ":"
        /\ url[1] \in LetterRuns
        /\ \A k \in 1..n : url[k] \in LetterRuns \cup {"-"}

\* scheme://host of a base URL: everything before its third "/"
OriginOf(baseUrl) ==
    LET slashes == { i \in 1..Len(baseUrl) : baseUrl[i] = "/" }
        thirds == { i \in slashes : Cardinality({ k \in slashes : k < i }) = 2 }
    IN  IF thirds = {} THEN baseUrl
        ELSE SubSeq(baseUrl, 1, (CHOOSE i \in thirds : TRUE) - 1)

\* a base URL through its last "/"
DirectoryOf(baseUrl) == SubSeq(baseUrl, 1, LastIndexOf(baseUrl, "/"))

\* lines 66-79: a.href of an anchor in a fresh document whose <base> is
\* baseUrl when that is given; without a base the reference cannot be
\* resolved and a.href gives it back as written
AnchorHref(url, baseUrl) ==
    IF ParsesAsAbsolute(url) THEN url
    ELSE IF baseUrl = Null \/ baseUrl = <<>> THEN url
    ELSE IF url # <<>> /\ url[1] = "/" THEN OriginOf(baseUrl) \o url
    ELSE DirectoryOf(baseUrl) \o url

ProtocolRelativeKept(protocol, url) == url

\* line 59: window.location.protocol + url
ProtocolRelative(protocol, url) == protocol \o url

\* lines 45-80; `protocol` is window.location.protocol
resolveUrl(url, baseUrl, protocol) ==
    IF MatchesSchemeSlashSlash(url) THEN url
    ELSE IF MatchesSlashSlash(url) THEN ProtocolRelative(protocol, url)
    ELSE IF MatchesScheme(url) THEN url
    ELSE AnchorHref(url, baseUrl)

\* line 66: document.implementation.createHTMLDocument() is reached
CreatesDocument(url) ==
    ~MatchesSchemeSlashSlash(url) /\ ~MatchesSlashSlash(url) /\ ~MatchesScheme(url)

\* window.location.protocol of the page embedFonts runs in
PageProtocol == <<"https", ":">>

\* references
AbsoluteHttps    == <<"https", ":", "/", "/", "host", "/", "a">>
AbsoluteUpper    == <<"HTTP", ":", "/", "/", "host", "/", "a">>
ProtocolLess     == <<"/", "/", "host", "/", "a">>
DataUri          == <<"data", ":", "x">>
MailtoUri        == <<"mailto", ":", "x">>
HyphenatedScheme == <<"x", "-", "y", ":", "/", "/", "host", "/", "a">>
PathAbsolute     == <<"/", "a">>
PathRelative     == <<"a">>

References ==
    {AbsoluteHttps, AbsoluteUpper, ProtocolLess, DataUri, MailtoUri,
     HyphenatedScheme, PathAbsolute, PathRelative}

\* base URLs; Null for a style sheet without href
BaseUrls ==
    {Null, <<"https", ":", "/", "/", "host", "/", "d", "/", "f">>,
           <<"https", ":", "/", "/", "cdn", "/", "f">>}

Protocols == {<<"http", ":">>, <<"https", ":">>}

\* a call resolveUrl(url, baseUrl, document, window)
ResolveUrl(url, baseUrl) ==
    /\ nResolves' = nResolves + 1
    /\ resolveCall' = [url |-> url, baseUrl |-> baseUrl, docsBefore |-> docsCreated]
    /\ resolvedUrl' = resolveUrl(url, baseUrl, locationProtocol)
    /\ docsCreated' = IF CreatesDocument(url) THEN docsCreated + 1 ELSE docsCreated
    /\ UNCHANGED <<locationProtocol, notResolve>>

InitResolve ==
    /\ CacheIdle /\ EmbedIdle /\ ParseIdle /\ FetchIdle /\ RulesIdle /\ WebIdle
    /\ locationProtocol \in Protocols
    /\ resolveCall = NoResolve
    /\ resolvedUrl = <<>>
    /\ docsCreated = 0
    /\ nResolves = 0

NextResolve ==
    /\ nResolves < MaxResolves
    /\ \E url \in References, baseUrl \in BaseUrls : ResolveUrl(url, baseUrl)

SpecResolve == InitResolve /\ [][NextResolve]_vars

-----------------------------------------------------------------------------
(* embedWebFonts.ts: embedFonts.  Style-sheet text is a sequence of tokens:  *)
(*   "U"  the four characters  url(          ")"  a closing parenthesis      *)
(*   "q"  a quote character                  "a", "b"  characters of a URL   *)
(*   "s"  any other style text                                               *)
(* and, in the text written back, "d" (the data:<type>;base64, prefix of a   *)
(* data URL), "A", "B", "X" (payloads) and "null".                           *)

\* the pieces a style sheet is built from
RefA       == <<"U", "a", ")">>                          \* url(a)
RefB       == <<"U", "b", ")">>                          \* url(b)
RefQuotedA == <<"U", "q", "a", "q", ")">>                \* url('a')
RefNested  == <<"U", "q", "s", "U", "a", ")", "q", ")">> \* url("s url(a)")
PlainText  == <<"s">>

Pieces == {RefA, RefB, RefQuotedA, RefNested, PlainText}

RECURSIVE Flatten(_)
Flatten(seqs) == IF seqs = <<>> THEN <<>> ELSE Head(seqs) \o Flatten(Tail(seqs))

\* the texts meta.cssText can resolve with: 1..MaxPieces pieces in a row
StyleSheets ==
    { Flatten(ps) : ps \in UNION { [1..n -> Pieces] : n \in 1..MaxPieces } }

\* meta.url, the location of the style sheet (an https:// directory)
MetaUrl == <<"https", ":", "/", "/", "host", "/", "f">>

\* cssText.match(/url\([^)]+\)/g): the matches at or after position `from`, each
\* with its start; a match runs from a "U" to the first ")" after it and needs
\* at least one character in between
RECURSIVE MatchUrlRefs(_, _)
MatchUrlRefs(text, from) ==
    LET starts == { i \in from..Len(text) :
                      /\ text[i] = "U"
                      /\ i + 1 <= Len(text)
                      /\ text[i + 1] # ")"
                      /\ \E j \in (i + 2)..Len(text) : text[j] = ")" }
    IN  IF starts = {} THEN <<>>
        ELSE LET i == CHOOSE x \in starts : \A y \in starts : x <= y
                 j == CHOOSE x \in (i + 2)..Len(text) :
                         text[x] = ")" /\ \A y \in (i + 2)..(x - 1) : text[y] # ")"
             IN  <<[start |-> i, loc |-> SubSeq(text, i, j)]>> \o MatchUrlRefs(text, j + 1)

\* ["']?([^"')]+)["']? matched against all of `inner`: the group, or <<>> if
\* there is no such match
QuotedBody(inner) ==
    LET lo == IF Len(inner) > 0 /\ inner[1] = "q" THEN 2 ELSE 1
        hi == IF Len(inner) >= lo /\ inner[Len(inner)] = "q"
              THEN Len(inner) - 1 ELSE Len(inner)
        body == SubSeq(inner, lo, hi)
    IN  IF body # <<>> /\ \A k \in 1..Len(body) : body[k] \notin {"q", ")"}
        THEN body ELSE <<>>

\* loc.replace(/url\(["']?([^"')]+)["']?\)/g, '$1'): loc ends with its only ")",
\* so a match starts at a "U" and runs to the end of loc
ExtractUrl(loc) ==
    LET starts == { k \in 1..(Len(loc) - 1) :
                      loc[k] = "U" /\ QuotedBody(SubSeq(loc, k + 1, Len(loc) - 1)) # <<>> }
    IN  IF starts = {} THEN loc
        ELSE LET k == CHOOSE x \in starts : \A y \in starts : x <= y
             IN  SubSeq(loc, 1, k - 1) \o QuotedBody(SubSeq(loc, k + 1, Len(loc) - 1))


\* the bytes the network serves at a URL, as base64
PayloadOf(url) ==
    CASE url = DirectoryOf(MetaUrl) \o <<"a">> -> "A"
      [] url = DirectoryOf(MetaUrl) \o <<"b">> -> "B"
      [] OTHER -> "X"

\* `url(${reader.result})` after a successful readAsDataURL
EmbeddedRef(url) == <<"U", "d", PayloadOf(url), ")">>

\* `url(${reader.result})` when the read failed: reader.result is null
NullRef == <<"U", "null", ")">>

\* the matches that are the first with their text
RECURSIVE DistinctRefs(_, _)
DistinctRefs(refs, seen) ==
    IF refs = <<>> THEN <<>>
    ELSE IF refs[1].loc \in seen THEN DistinctRefs(Tail(refs), seen)
    ELSE <<refs[1]>> \o DistinctRefs(Tail(refs), seen \cup {refs[1].loc})

FontLocsDistinct(text) == DistinctRefs(MatchUrlRefs(text, 1), {})

\* line 110: fontLocs = cssText.match(/url\([^)]+\)/g) || [], every match in
\* order, equal texts included
FontLocs(text) == MatchUrlRefs(text, 1)

RECURSIVE Deduplicated(_)
Deduplicated(seq) ==
    IF seq = <<>> THEN <<>>
    ELSE LET front == Deduplicated(SubSeq(seq, 1, Len(seq) - 1))
             last == seq[Len(seq)]
         IN  IF \E k \in 1..Len(front) : front[k] = last THEN front ELSE Append(front, last)

FontRequestsDeduplicated(refs) ==
    Deduplicated([i \in 1..Len(refs) |-> resolveUrl(ExtractUrl(refs[i].loc), MetaUrl, PageProtocol)])

\* the URLs handed to window.fetch by fontLocs.map: one per matched reference
FontRequests(refs) ==
    [i \in 1..Len(refs) |-> resolveUrl(ExtractUrl(refs[i].loc), MetaUrl, PageProtocol)]

\* a task of loadFonts has settled: its promise resolved (after .catch, always)
TaskSettled(t) == t.stage \in {"done", "failed"}

\* Promise.race([Promise.all(loadFonts), timeoutPromise]).then(() => cssText):
\* the microtasks that follow a settlement; once every task has settled the
\* race settles and the buffer, as it is then, is the value returned
RaceAfter(newTasks, buffer) ==
    IF settledBy = "none" /\ \A i \in 1..Len(newTasks) : TaskSettled(newTasks[i])
    THEN /\ settledBy' = "all"
         /\ returned' = buffer
         /\ doneAtReturn' = {i \in 1..Len(newTasks) : newTasks[i].stage = "done"}
    ELSE UNCHANGED <<settledBy, returned, doneAtReturn>>

\* meta.cssText.then(...): the synchronous part of embedFonts
EmbedFontsStart ==
    /\ settledBy = "idle"
    /\ LET refs == FontLocs(raw)
           newTasks == [i \in 1..Len(refs) |->
                          [loc |-> refs[i].loc, start |-> refs[i].start,
                           urlToFetch |-> resolveUrl(ExtractUrl(refs[i].loc), MetaUrl, PageProtocol),
                           stage |-> "fetching", warned |-> FALSE]]
       IN  /\ cssText' = raw
           /\ tasks' = newTasks
           /\ fetched' = FontRequests(refs)
           /\ IF newTasks = <<>>
              THEN /\ settledBy' = "all"
                   /\ returned' = raw
              ELSE /\ settledBy' = "none"
                   /\ returned' = returned
    /\ UNCHANGED <<raw, timerFired, doneAtReturn, cacheVars, parseVars, sheetVars>>

\* window.fetch(urlToFetch) resolves; res.blob() and the FileReader follow
FontFetchResolve(i) ==
    /\ tasks[i].stage = "fetching"
    /\ tasks' = [tasks EXCEPT ![i].stage = "reading"]
    /\ UNCHANGED <<raw, cssText, fetched, timerFired, returned, settledBy, doneAtReturn,
                   cacheVars, parseVars, sheetVars>>

\* window.fetch or res.blob() rejects: .catch warns and resolves with null
FontFetchReject(i) ==
    /\ tasks[i].stage \in {"fetching", "reading"}
    /\ tasks' = [tasks EXCEPT ![i].stage = "failed", ![i].warned = TRUE]
    /\ RaceAfter(tasks', cssText)
    /\ UNCHANGED <<raw, cssText, fetched, timerFired, cacheVars, parseVars, sheetVars>>

\* reader.onloadend after a successful read: the side effect on the buffer,
\* then resolve([loc, reader.result])
FontReaderLoadEnd(i) ==
    /\ tasks[i].stage = "reading"
    /\ cssText' = ReplaceFirst(cssText, tasks[i].loc, EmbeddedRef(tasks[i].urlToFetch))
    /\ tasks' = [tasks EXCEPT ![i].stage = "done"]
    /\ RaceAfter(tasks', cssText')
    /\ UNCHANGED <<raw, fetched, timerFired, cacheVars, parseVars, sheetVars>>

\* a failed read: the FileReader fires error, then loadend.  reader.onerror
\* rejects, .catch warns and resolves with null (and the race may settle, in
\* the microtasks that follow the handler); then reader.onloadend runs its side
\* effect with reader.result = null
FontReaderError(i) ==
    /\ tasks[i].stage = "reading"
    /\ tasks' = [tasks EXCEPT ![i].stage = "failed", ![i].warned = TRUE]
    /\ RaceAfter(tasks', cssText)
    /\ cssText' = ReplaceFirst(cssText, tasks[i].loc, NullRef)
    /\ UNCHANGED <<raw, fetched, timerFired, cacheVars, parseVars, sheetVars>>

\* the window.setTimeout callback, 5000 ms after the synchronous part:
\* resolve('timeout'), which settles the race unless it has settled
TimerFires ==
    /\ settledBy # "idle"
    /\ ~timerFired
    /\ timerFired' = TRUE
    /\ IF settledBy = "none"
       THEN /\ settledBy' = "timeout"
            /\ returned' = cssText
            /\ doneAtReturn' = {i \in 1..Len(tasks) : tasks[i].stage = "done"}
       ELSE UNCHANGED <<settledBy, returned, doneAtReturn>>
    /\ UNCHANGED <<raw, cssText, tasks, fetched, cacheVars, parseVars, sheetVars>>

InitEmbed ==
    /\ CacheIdle
    /\ ParseIdle
    /\ SheetIdle
    /\ raw \in StyleSheets
    /\ cssText = <<>>
    /\ tasks = <<>>
    /\ fetched = <<>>
    /\ timerFired = FALSE
    /\ returned = NotYet
    /\ settledBy = "idle"
    /\ doneAtReturn = {}

NextEmbed ==
    \/ EmbedFontsStart
    \/ \E i \in 1..Len(tasks) : FontFetchResolve(i)
    \/ \E i \in 1..Len(tasks) : FontFetchReject(i)
    \/ \E i \in 1..Len(tasks) : FontReaderLoadEnd(i)
    \/ \E i \in 1..Len(tasks) : FontReaderError(i)
    \/ TimerFires

SpecEmbed == InitEmbed /\ [][NextEmbed]_vars

-----------------------------------------------------------------------------
(* embedWebFonts.ts: parseCSS.  Style-sheet text is a sequence of tokens:     *)
(*   "@i" the text  @import          "u"  a url(...) term      ";"  ;         *)
(*   "m"  the text  @media <query>   "{", "}"  braces                         *)
(*   "K"  a keyframes block, one that keyframesRegex matches as a whole       *)
(*   "c"  a block comment            "n"  a line terminator    "t"  a tab     *)
(*   " "  a space                    "s"  any other text (no brace, no space) *)

\* the constructs a text handed to parseCSS is built from
ImportItem    == <<"@i", "u", ";">>                     \* @import url(x);
KeyframesItem == <<"K">>                                \* @keyframes k{0%{..}100%{..}}
BlockItem     == <<"s", "{", "s", "}">>                 \* sel{decl}
MediaItem     == <<"m", "{", "s", "{", "s", "}", "}">>  \* @media q{sel{decl}}
SpaceItem     == <<" ">>
JunkItem      == <<"c", "n", "t">>                      \* a comment, a newline, a tab

Items == {ImportItem, KeyframesItem, BlockItem, MediaItem, SpaceItem, JunkItem}

Sources ==
    {Null, Undefined} \cup { Flatten(is) : is \in UNION { [1..n -> Items] : n \in 1..MaxItems } }

\* text.replaceAll(<pattern of one token>, '')
RemoveToken(text, token) == SelectSeq(text, LAMBDA x : x # token)

\* text.replaceAll('\t', ' ')
TabsToSpaces(text) == [i \in 1..Len(text) |-> IF text[i] = "t" THEN " " ELSE text[i]]

\* text.replaceAll(/\s\s+/gi, ' '): a run of two or more spaces becomes one
RECURSIVE CollapseSpaces(_)
CollapseSpaces(text) ==
    IF Len(text) <= 1 THEN text
    ELSE IF text[1] = " " /\ text[2] = " " THEN CollapseSpaces(Tail(text))
    ELSE <<text[1]>> \o CollapseSpaces(Tail(text))

\* lines 182-195: strip comments, line terminators, tabs and excessive spaces
NormalizeCss(text) ==
    CollapseSpaces(TabsToSpaces(RemoveToken(RemoveToken(text, "c"), "n")))

NoMatch == [found |-> FALSE, start |-> 0, end |-> 0]

\* line 176: source == null, true of null and of undefined
IsNullish(text) == text = Null \/ text = Undefined

\* the least element of a non-empty set of numbers
Least(S) == CHOOSE x \in S : \A y \in S : x <= y

\* keyframesRegex.exec(text) with lastIndex = from: the next "K"
KeyframesExec(text, from) ==
    LET starts == { i \in (from + 1)..Len(text) : text[i] = "K" }
    IN  IF starts = {} THEN NoMatch
        ELSE [found |-> TRUE, start |-> Least(starts), end |-> Least(starts)]

\* importRegex.exec(text) with lastIndex = from, for
\* /@import[\s\S]*?url\([^)]*\)[\s\S]*?;/gi : the search starts at `from` and
\* the match may start at any later @import; it runs lazily to the first
\* url(...) and from there to the first ";"
ImportExec(text, from) ==
    LET ends(i) == { e \in (i + 2)..Len(text) :
                       text[e] = ";" /\ \E u \in (i + 1)..(e - 1) : text[u] = "u" }
        starts == { i \in (from + 1)..Len(text) : text[i] = "@i" /\ ends(i) # {} }
    IN  IF starts = {} THEN NoMatch
        ELSE LET i == Least(starts)
                 u == Least({ x \in (i + 1)..Len(text) : text[x] = "u" })
             IN  [found |-> TRUE, start |-> i,
                  end |-> Least({ e \in (u + 1)..Len(text) : text[e] = ";" })]

\* first alternative of combinedCSSRegex tried at position p:
\* (\s*?(?:\/\*[\s\S]*?\*\/)?\s*?@media[\s\S]*?){([\s\S]*?)}\s*?}
\* spaces, then @media, lazily to the first "{", lazily to the first "}" that
\* is followed, after spaces only, by another "}"
MediaMatchAt(text, p) ==
    LET heads == { h \in p..Len(text) :
                     text[h] = "m" /\ \A k \in p..(h - 1) : text[k] = " " }
    IN  IF heads = {} THEN NoMatch
        ELSE LET h == Least(heads)
                 opens == { b \in (h + 1)..Len(text) : text[b] = "{" }
             IN  IF opens = {} THEN NoMatch
                 ELSE LET b == Least(opens)
                          closes == { e \in (b + 1)..Len(text) :
                                        /\ text[e] = "}"
                                        /\ \E f \in (e + 1)..Len(text) :
                                              /\ text[f] = "}"
                                              /\ \A k \in (e + 1)..(f - 1) : text[k] = " " }
                      IN  IF closes = {} THEN NoMatch
                          ELSE LET e == Least(closes)
                               IN  [found |-> TRUE, start |-> p,
                                    end |-> Least({ f \in (e + 1)..Len(text) : text[f] = "}" })]

\* second alternative tried at position p: (([\s\S]*?){([\s\S]*?)})
\* lazily to the first "{", then lazily to the first "}"
BlockMatchAt(text, p) ==
    LET opens == { b \in p..Len(text) :
                     text[b] = "{" /\ \E e \in (b + 1)..Len(text) : text[e] = "}" }
    IN  IF opens = {} THEN NoMatch
        ELSE LET b == Least(opens)
             IN  [found |-> TRUE, start |-> p,
                  end |-> Least({ e \in (b + 1)..Len(text) : text[e] = "}" })]

\* unifiedRegex.exec(text) with lastIndex = from: at each start position the
\* first alternative is tried before the second; the second one matches at
\* the first position tried whenever a "{...}" follows at all, so a match
\* always starts at `from`
UnifiedExec(text, from) ==
    IF from + 1 > Len(text) THEN NoMatch
    ELSE IF MediaMatchAt(text, from + 1).found THEN MediaMatchAt(text, from + 1)
    ELSE BlockMatchAt(text, from + 1)

\* position in `normalized` of the p-th token of the text left once the
\* keyframes blocks are removed
PositionBeforeRemoval(p) ==
    Least({ i \in 1..Len(normalized) :
              /\ normalized[i] # "K"
              /\ Cardinality({ k \in 1..i : normalized[k] # "K" }) = p })

UnifiedIndexKept(matchEnd) == unifiedIndex

ImportIndexKept(matchEnd) == importIndex

\* line 230: unifiedRegex.lastIndex = importRegex.lastIndex
UnifiedIndexAfterImport(matchEnd) == matchEnd

\* line 227: importRegex.lastIndex = unifiedRegex.lastIndex
ImportIndexAfterUnified(matchEnd) == matchEnd

\* lines 176-195: the null check and the normalisation
ParseStart ==
    /\ pc = "idle"
    /\ IF IsNullish(source)
       THEN /\ pc' = "done"
            /\ UNCHANGED <<parseText, normalized>>
       ELSE /\ pc' = "keyframes"
            /\ parseText' = NormalizeCss(source)
            /\ normalized' = NormalizeCss(source)
    /\ result' = <<>>
    /\ resultAt' = <<>>
    /\ UNCHANGED <<source, keyframesIndex, importIndex, unifiedIndex, cacheVars, embedVars, sheetVars>>

\* lines 204-211: one iteration of the keyframes loop; on the iteration that
\* finds no match the loop ends and every keyframes block is removed
KeyframesStep ==
    /\ pc = "keyframes"
    /\ LET matches == KeyframesExec(parseText, keyframesIndex)
       IN  IF matches.found
           THEN /\ result' = Append(result, SubSeq(parseText, matches.start, matches.end))
                /\ resultAt' = Append(resultAt, matches.start)
                /\ keyframesIndex' = matches.end
                /\ UNCHANGED <<parseText, pc>>
           ELSE /\ parseText' = RemoveToken(parseText, "K")
                /\ keyframesIndex' = 0
                /\ pc' = "scan"
                /\ UNCHANGED <<result, resultAt>>
    /\ UNCHANGED <<source, normalized, importIndex, unifiedIndex, cacheVars, embedVars, sheetVars>>

\* lines 220-235: one iteration of the import / general-block loop
ScanStep ==
    /\ pc = "scan"
    /\ LET imports == ImportExec(parseText, importIndex)
           blocks == UnifiedExec(parseText, unifiedIndex)
       IN  IF imports.found
           THEN /\ result' = Append(result, SubSeq(parseText, imports.start, imports.end))
                /\ resultAt' = Append(resultAt, PositionBeforeRemoval(imports.start))
                /\ importIndex' = imports.end
                /\ unifiedIndex' = UnifiedIndexAfterImport(imports.end)
                /\ pc' = pc
           ELSE IF blocks.found
           THEN /\ result' = Append(result, SubSeq(parseText, blocks.start, blocks.end))
                /\ resultAt' = Append(resultAt, PositionBeforeRemoval(blocks.start))
                /\ unifiedIndex' = blocks.end
                /\ importIndex' = ImportIndexAfterUnified(blocks.end)
                /\ pc' = pc
           ELSE /\ pc' = "done"
                /\ importIndex' = 0
                /\ unifiedIndex' = 0
                /\ UNCHANGED <<result, resultAt>>
    /\ UNCHANGED <<source, parseText, normalized, keyframesIndex, cacheVars, embedVars, sheetVars>>

\* the keyframes loop run to its end: the matches from `from` on
RECURSIVE KeyframesFrom(_, _)
KeyframesFrom(text, from) ==
    LET matches == KeyframesExec(text, from)
    IN  IF matches.found
        THEN <<SubSeq(text, matches.start, matches.end)>> \o KeyframesFrom(text, matches.end)
        ELSE <<>>

\* the import / general-block loop run to its end from the shared cursor
RECURSIVE ScanFrom(_, _)
ScanFrom(text, cursor) ==
    LET imports == ImportExec(text, cursor)
        blocks == UnifiedExec(text, cursor)
    IN  IF imports.found
        THEN <<SubSeq(text, imports.start, imports.end)>> \o ScanFrom(text, imports.end)
        ELSE IF blocks.found
        THEN <<SubSeq(text, blocks.start, blocks.end)>> \o ScanFrom(text, blocks.end)
        ELSE <<>>

\* lines 175-236: what a call parseCSS(source) returns
parseCSS(text) ==
    IF IsNullish(text) THEN <<>>
    ELSE KeyframesFrom(NormalizeCss(text), 0)
            \o ScanFrom(RemoveToken(NormalizeCss(text), "K"), 0)

InitParse ==
    /\ CacheIdle
    /\ EmbedIdle
    /\ SheetIdle
    /\ source \in Sources
    /\ parseText = <<>>
    /\ normalized = <<>>
    /\ result = <<>>
    /\ resultAt = <<>>
    /\ pc = "idle"
    /\ keyframesIndex = 0
    /\ importIndex = 0
    /\ unifiedIndex = 0

NextParse ==
    \/ ParseStart
    \/ KeyframesStep
    \/ ScanStep

SpecParse == InitParse /\ [][NextParse]_vars

-----------------------------------------------------------------------------
(* embedWebFonts.ts: fetchCSS and cssFetchCache.  A future of fetchCSS has an  *)
(* outer state (the promise of the Metadata) and, once that is fulfilled, the  *)
(* state of the Metadata's cssText promise:                                    *)
(*   "blob"  res.blob() pending      "reading"  readAsText under way           *)
(*   "fulfilled", "rejected"                                                   *)

\* style-sheet URLs: two that differ only in the query string, and another file
CssA      == <<"h", "/", "a", ".", "c", "s", "s">>
CssAQuery == <<"h", "/", "a", ".", "c", "s", "s", "?", "1">>
CssB      == <<"h", "/", "b", ".", "c", "s", "s">>

CssURLs == {CssA, CssAQuery, CssB}

CssKeyWithoutQuery(url) == StripQuery(url)

\* lines 15 and 38: cssFetchCache is indexed with `url` itself
CssKey(url) == url

\* line 16: cache != null
CssCacheHit(cacheNow, url) == CssKey(url) \in DOMAIN cacheNow

\* line 38: cssFetchCache[url] = deferred
CssCacheStore(cacheNow, url, id) ==
    [k \in DOMAIN cacheNow \cup {CssKey(url)} |->
        IF k = CssKey(url) THEN id ELSE cacheNow[k]]

\* lines 14-41: fetchCSS(url) run on the cache, the futures and the requests
\* as they are in `now`; gives them as they are after the call, and the future
\* returned
fetchCSS(now, url) ==
    IF CssCacheHit(now.cache, url)
    THEN [cache |-> now.cache, futures |-> now.futures, requests |-> now.requests,
          returned |-> now.cache[CssKey(url)]]
    ELSE [cache |-> CssCacheStore(now.cache, url, Len(now.futures) + 1),
          futures |-> Append(now.futures,
                        [url |-> url, outer |-> "pending", cssText |-> "none"]),
          requests |-> Append(now.requests, url),
          returned |-> Len(now.futures) + 1]

\* the module state fetchCSS works on
CssNow == [cache |-> cssFetchCache, futures |-> cssFutures, requests |-> cssRequests]

\* observation kept in lastFetch: the future stored for the URL when the call
\* was made, 0 if there was none
CssStoredBefore(url) ==
    IF CssCacheHit(cssFetchCache, url) THEN cssFetchCache[CssKey(url)] ELSE 0

\* a call of fetchCSS
FetchCSS(url) ==
    /\ nFetches' = nFetches + 1
    /\ lastFetch' = [url |-> url, had |-> CssStoredBefore(url),
                     issued |-> ~CssCacheHit(cssFetchCache, url),
                     returned |-> fetchCSS(CssNow, url).returned]
    /\ cssFetchCache' = fetchCSS(CssNow, url).cache
    /\ cssFutures' = fetchCSS(CssNow, url).futures
    /\ cssRequests' = fetchCSS(CssNow, url).requests
    /\ UNCHANGED notFetch

\* line 20: window.fetch(url) is fulfilled; the Metadata exists, res.blob() starts
CssFetchResolve(id) ==
    /\ cssFutures[id].outer = "pending"
    /\ cssFutures' = [cssFutures EXCEPT ![id].outer = "fulfilled", ![id].cssText = "blob"]
    /\ UNCHANGED <<cssFetchCache, cssRequests, lastFetch, nFetches, notFetch>>

\* line 20: window.fetch(url) rejects; nothing catches it, the future rejects
CssFetchReject(id) ==
    /\ cssFutures[id].outer = "pending"
    /\ cssFutures' = [cssFutures EXCEPT ![id].outer = "rejected"]
    /\ UNCHANGED <<cssFetchCache, cssRequests, lastFetch, nFetches, notFetch>>

\* lines 24-29: res.blob() is fulfilled; readAsText starts
CssBlobResolve(id) ==
    /\ cssFutures[id].cssText = "blob"
    /\ cssFutures' = [cssFutures EXCEPT ![id].cssText = "reading"]
    /\ UNCHANGED <<cssFetchCache, cssRequests, lastFetch, nFetches, notFetch>>

\* line 24: res.blob() rejects
CssBlobReject(id) ==
    /\ cssFutures[id].cssText = "blob"
    /\ cssFutures' = [cssFutures EXCEPT ![id].cssText = "rejected"]
    /\ UNCHANGED <<cssFetchCache, cssRequests, lastFetch, nFetches, notFetch>>

\* line 27: reader.onloadend after a successful read
CssReaderLoadEnd(id) ==
    /\ cssFutures[id].cssText = "reading"
    /\ cssFutures' = [cssFutures EXCEPT ![id].cssText = "fulfilled"]
    /\ UNCHANGED <<cssFetchCache, cssRequests, lastFetch, nFetches, notFetch>>

\* line 28: reader.onerror = reject; the loadend that follows resolves a
\* promise that is already rejected
CssReaderError(id) ==
    /\ cssFutures[id].cssText = "reading"
    /\ cssFutures' = [cssFutures EXCEPT ![id].cssText = "rejected"]
    /\ UNCHANGED <<cssFetchCache, cssRequests, lastFetch, nFetches, notFetch>>

\* what the futures of fetchCSS do once created
CssSettle ==
    \/ \E id \in 1..Len(cssFutures) : CssFetchResolve(id)
    \/ \E id \in 1..Len(cssFutures) : CssFetchReject(id)
    \/ \E id \in 1..Len(cssFutures) : CssBlobResolve(id)
    \/ \E id \in 1..Len(cssFutures) : CssBlobReject(id)
    \/ \E id \in 1..Len(cssFutures) : CssReaderLoadEnd(id)
    \/ \E id \in 1..Len(cssFutures) : CssReaderError(id)

InitFetch == CacheIdle /\ EmbedIdle /\ ParseIdle /\ SheetIdle

NextFetch ==
    \/ /\ nFetches < MaxFetches
       /\ \E url \in CssURLs : FetchCSS(url)
    \/ CssSettle

SpecFetch == InitFetch /\ [][NextFetch]_vars

-----------------------------------------------------------------------------
(* embedWebFonts.ts: getCSSRules.  A style sheet is a record                   *)
(*   href      its URL, Null for an inline sheet                               *)
(*   readable  FALSE when reading cssRules throws (a cross-origin sheet)       *)
(*   cssRules  its rules; a rule has a kind, its text, and the href of an      *)
(*             @import rule                                                    *)

\* a block the style-sheet engine rejects: sel{decl} with an invalid selector
BadBlockItem == <<"!", "{", "s", "}">>

\* the style-sheet text served at a URL (after embedFonts, which replaces
\* url(...) terms by url(...) terms)
RemoteTextOf(url) ==
    CASE url = CssA      -> ImportItem \o BlockItem \o SpaceItem \o MediaItem
      [] url = CssB      -> BadBlockItem \o BlockItem
      [] url = CssAQuery -> ImportItem \o ImportItem \o BlockItem
      [] OTHER           -> <<>>

StyleRule == [kind |-> "style", text |-> BlockItem, href |-> Null]
ImportRule(url) == [kind |-> "import", text |-> ImportItem, href |-> url]

InlineSheet(rules) == [href |-> Null, readable |-> TRUE, cssRules |-> rules]
LinkedSheet(url, rules) == [href |-> url, readable |-> TRUE, cssRules |-> rules]
CrossOriginSheet(url) == [href |-> url, readable |-> FALSE, cssRules |-> <<StyleRule>>]

\* the documents getCSSRules is run on
Documents ==
    { <<InlineSheet(<<StyleRule>>)>>,
      <<InlineSheet(<<ImportRule(CssA)>>)>>,
      <<InlineSheet(<<ImportRule(CssA), StyleRule>>)>>,
      <<InlineSheet(<<ImportRule(CssAQuery), ImportRule(CssB), StyleRule>>)>>,
      <<InlineSheet(<<StyleRule, StyleRule>>), CrossOriginSheet(CssA)>>,
      <<CrossOriginSheet(CssB), InlineSheet(<<>>)>>,
      <<CrossOriginSheet(CssA)>>,
      <<LinkedSheet(CssB, <<ImportRule(CssB), StyleRule>>), CrossOriginSheet(CssB)>> }

\* rule.trim()
Trim(text) ==
    LET inked == { i \in 1..Len(text) : text[i] # " " }
    IN  IF inked = {} THEN <<>>
        ELSE SubSeq(text, Least(inked), CHOOSE i \in inked : \A j \in inked : j <= i)

\* trimmedRule.startsWith('@import')
StartsWithImport(text) == text # <<>> /\ text[1] = "@i"

\* the rule the style-sheet engine makes of a rule text
RuleOf(text) ==
    [kind |-> IF StartsWithImport(Trim(text)) THEN "import"
              ELSE IF Trim(text)[1] = "m" THEN "media"
              ELSE IF Trim(text)[1] = "K" THEN "keyframes"
              ELSE "style",
     text |-> Trim(text),
     href |-> IF StartsWithImport(Trim(text)) THEN <<"u">> ELSE Null]

\* the rule texts the style-sheet engine parses
WellFormed(text) == Trim(text) \in {ImportItem, KeyframesItem, BlockItem, MediaItem}

\* CSSStyleSheet.insertRule(rule, index) throws: the rules cannot be reached
\* (SecurityError), the index is greater than the length (IndexSizeError),
\* the text does not parse (SyntaxError), or the rule may not stand there
\* (HierarchyRequestError: an @import rule after another kind of rule, or
\* another kind of rule before an @import rule)
InsertRuleThrows(sheet, text, index) ==
    \/ ~sheet.readable
    \/ index > Len(sheet.cssRules)
    \/ ~WellFormed(text)
    \/ /\ StartsWithImport(Trim(text))
       /\ \E k \in 1..index : sheet.cssRules[k].kind # "import"
    \/ /\ ~StartsWithImport(Trim(text))
       /\ \E k \in (index + 1)..Len(sheet.cssRules) : sheet.cssRules[k].kind = "import"

\* the rules after a successful insertRule(rule, index): the new rule stands
\* at (0-based) position index
InsertRule(sheet, text, index) ==
    [sheet EXCEPT !.cssRules = SubSeq(@, 1, index) \o <<RuleOf(text)>>
                                  \o SubSeq(@, index + 1, Len(@))]

\* line 291: styleSheets.find((a) => a.href == null) || document.styleSheets[0]
InlineIndex ==
    IF \E i \in 1..Len(styleSheets) : styleSheets[i].href = Null
    THEN Least({ i \in 1..Len(styleSheets) : styleSheets[i].href = Null })
    ELSE 1

\* lines 251-256: the tasks started for the @import rules of sheet s, from its
\* j-th rule on; importIndex = index + 1, and j = index + 1
RECURSIVE ImportStubs(_, _)
ImportStubs(s, j) ==
    IF j > Len(styleSheets[s].cssRules) THEN <<>>
    ELSE (IF styleSheets[s].cssRules[j].kind = "import"
          THEN <<[path |-> "import", sheet |-> s, inline |-> 0, importIndex |-> j,
                  url |-> resolveUrl(styleSheets[s].cssRules[j].href,
                                     styleSheets[s].href, locationProtocol)]>>
          ELSE <<>>) \o ImportStubs(s, j + 1)

\* lines 289-305: the task started for a sheet whose cssRules cannot be read
FallbackStubs(s) ==
    IF styleSheets[s].href # Null
    THEN <<[path |-> "fallback", sheet |-> s, inline |-> InlineIndex, importIndex |-> 0,
            url |-> styleSheets[s].href]>>
    ELSE <<>>

\* lines 247-309: the first loop over the style sheets, from sheet s on
RECURSIVE SheetStubs(_)
SheetStubs(s) ==
    IF s > Len(styleSheets) THEN <<>>
    ELSE (IF styleSheets[s].readable THEN ImportStubs(s, 1) ELSE FallbackStubs(s))
            \o SheetStubs(s + 1)

\* the fetchCSS calls of the first loop, one after the other
RECURSIVE FetchEach(_, _)
FetchEach(urls, now) ==
    IF urls = <<>> THEN [now |-> now, ids |-> <<>>]
    ELSE LET after == fetchCSS(now, Head(urls))
             rest == FetchEach(Tail(urls), after)
         IN  [now |-> rest.now, ids |-> <<after.returned>> \o rest.ids]

\* lines 243-309: getCSSRules up to `return Promise.all(deferreds)`
GetCSSRulesStart ==
    /\ rulesPc = "called"
    /\ LET stubs == SheetStubs(1)
           urls == [i \in 1..Len(stubs) |-> stubs[i].url]
           calls == FetchEach(urls, CssNow)
           before == FetchEach(SubSeq(urls, 1, Len(urls) - 1), CssNow).now
       IN  /\ deferreds' = [i \in 1..Len(stubs) |->
                              [path |-> stubs[i].path, sheet |-> stubs[i].sheet,
                               inline |-> stubs[i].inline,
                               importIndex |-> stubs[i].importIndex,
                               url |-> stubs[i].url, future |-> calls.ids[i],
                               stage |-> "fetching", threw |-> {}, inserted |-> {}]]
           /\ cssFetchCache' = calls.now.cache
           /\ cssFutures' = calls.now.futures
           /\ cssRequests' = calls.now.requests
           /\ nFetches' = nFetches + Len(stubs)
           /\ lastFetch' =
                 IF stubs = <<>> THEN lastFetch
                 ELSE [url |-> urls[Len(urls)],
                       had |-> IF CssCacheHit(before.cache, urls[Len(urls)])
                               THEN before.cache[CssKey(urls[Len(urls)])] ELSE 0,
                       issued |-> ~CssCacheHit(before.cache, urls[Len(urls)]),
                       returned |-> calls.ids[Len(urls)]]
    /\ errorsLogged' = errorsLogged
          + Cardinality({ s \in 1..Len(styleSheets) : ~styleSheets[s].readable })
    /\ rulesPc' = "inlining"
    /\ UNCHANGED <<styleSheets, initialSheets, ret, notRules>>

\* lines 257-259, 294-296: the Metadata has arrived; embedFonts(metadata) starts
TaskMetadata(t) ==
    /\ rulesPc = "inlining"
    /\ deferreds[t].stage = "fetching"
    /\ cssFutures[deferreds[t].future].outer = "fulfilled"
    /\ deferreds' = [deferreds EXCEPT ![t].stage = "embedding"]
    /\ UNCHANGED <<styleSheets, initialSheets, ret, rulesPc, errorsLogged, fetchVars, notRules>>

\* lines 279-281, 302-304: the fetch was rejected; .catch logs
TaskFetchFailed(t) ==
    /\ rulesPc = "inlining"
    /\ deferreds[t].stage = "fetching"
    /\ cssFutures[deferreds[t].future].outer = "rejected"
    /\ deferreds' = [deferreds EXCEPT ![t].stage = "failed"]
    /\ errorsLogged' = errorsLogged + 1
    /\ UNCHANGED <<styleSheets, initialSheets, ret, rulesPc, fetchVars, notRules>>

\* embedFonts rejects because meta.cssText was rejected; .catch logs
TaskEmbedFailed(t) ==
    /\ rulesPc = "inlining"
    /\ deferreds[t].stage = "embedding"
    /\ cssFutures[deferreds[t].future].cssText = "rejected"
    /\ deferreds' = [deferreds EXCEPT ![t].stage = "failed"]
    /\ errorsLogged' = errorsLogged + 1
    /\ UNCHANGED <<styleSheets, initialSheets, ret, rulesPc, fetchVars, notRules>>

\* line 266: the value of (importIndex += 1)
ImportInsertIndex(importIndexNow) == importIndexNow + 1

\* lines 260-277: parseCSS(cssText).forEach of the import path, from block k
\* on; an insertRule that throws is caught and logged, and the loop goes on
RECURSIVE InsertImported(_, _, _, _)
InsertImported(blocks, k, sheet, importIndexNow) ==
    IF k > Len(blocks) THEN [sheet |-> sheet, threw |-> {}, inserted |-> {}]
    ELSE LET trimmedRule == Trim(blocks[k])
             index == IF StartsWithImport(trimmedRule)
                      THEN ImportInsertIndex(importIndexNow)
                      ELSE Len(sheet.cssRules)
             throws == InsertRuleThrows(sheet, trimmedRule, index)
             rest == InsertImported(blocks, k + 1,
                        IF throws THEN sheet ELSE InsertRule(sheet, trimmedRule, index),
                        IF StartsWithImport(trimmedRule)
                        THEN ImportInsertIndex(importIndexNow) ELSE importIndexNow)
         IN  [sheet |-> rest.sheet,
              threw |-> rest.threw \cup (IF throws THEN {k} ELSE {}),
              inserted |-> rest.inserted \cup (IF throws THEN {} ELSE {k})]

\* lines 297-301: parseCSS(cssText).forEach of the fallback path, from block k
\* on: inline.insertRule(rule, sheet.cssRules.length), nothing caught inside
\* the loop, so the first exception ends it; reading sheet.cssRules throws
\* when the sheet is not readable
RECURSIVE InsertFallback(_, _, _, _)
InsertFallback(blocks, k, inline, sheet) ==
    IF k > Len(blocks) THEN [sheet |-> inline, threw |-> {}, inserted |-> {}]
    ELSE IF ~sheet.readable \/ InsertRuleThrows(inline, blocks[k], Len(sheet.cssRules))
    THEN [sheet |-> inline, threw |-> {k}, inserted |-> {}]
    ELSE LET rest == InsertFallback(blocks, k + 1,
                        InsertRule(inline, blocks[k], Len(sheet.cssRules)), sheet)
         IN  [sheet |-> rest.sheet, threw |-> rest.threw,
              inserted |-> rest.inserted \cup {k}]

\* lines 260-277: embedFonts has returned the text of an imported sheet; its
\* blocks are inserted into the importing sheet
TaskInsertImported(t) ==
    /\ rulesPc = "inlining"
    /\ deferreds[t].path = "import"
    /\ deferreds[t].stage = "embedding"
    /\ cssFutures[deferreds[t].future].cssText = "fulfilled"
    /\ LET done == InsertImported(parseCSS(RemoteTextOf(cssFutures[deferreds[t].future].url)),
                                  1, styleSheets[deferreds[t].sheet], deferreds[t].importIndex)
       IN  /\ styleSheets' = [styleSheets EXCEPT ![deferreds[t].sheet] = done.sheet]
           /\ deferreds' = [deferreds EXCEPT ![t].stage = "done", ![t].threw = done.threw,
                                             ![t].inserted = done.inserted]
           /\ errorsLogged' = errorsLogged + Cardinality(done.threw)
    /\ UNCHANGED <<initialSheets, ret, rulesPc, fetchVars, notRules>>

\* lines 297-304: embedFonts has returned the text of an unreadable sheet; its
\* blocks are inserted into the inline sheet, and an exception is logged by
\* the .catch of the task
TaskInsertFallback(t) ==
    /\ rulesPc = "inlining"
    /\ deferreds[t].path = "fallback"
    /\ deferreds[t].stage = "embedding"
    /\ cssFutures[deferreds[t].future].cssText = "fulfilled"
    /\ LET done == InsertFallback(parseCSS(RemoteTextOf(cssFutures[deferreds[t].future].url)),
                                  1, styleSheets[deferreds[t].inline],
                                  styleSheets[deferreds[t].sheet])
       IN  /\ styleSheets' = [styleSheets EXCEPT ![deferreds[t].inline] = done.sheet]
           /\ deferreds' = [deferreds EXCEPT
                              ![t].stage = IF done.threw = {} THEN "done" ELSE "failed",
                              ![t].threw = done.threw, ![t].inserted = done.inserted]
           /\ errorsLogged' = errorsLogged + Cardinality(done.threw)
    /\ UNCHANGED <<initialSheets, ret, rulesPc, fetchVars, notRules>>

\* the rules of the readable sheets, sheet after sheet, from sheet s on
RECURSIVE CollectedRules(_)
CollectedRules(s) ==
    IF s > Len(styleSheets) THEN <<>>
    ELSE (IF styleSheets[s].readable THEN styleSheets[s].cssRules ELSE <<>>)
            \o CollectedRules(s + 1)

DeferredStateUncaught(stage) ==
    IF stage = "done" THEN "fulfilled" ELSE IF stage = "failed" THEN "rejected" ELSE "pending"

\* lines 279-281, 302-304: every promise pushed onto deferreds ends with a
\* .catch that logs, so it is fulfilled whether its task worked or failed
DeferredState(stage) ==
    IF stage \in {"done", "failed"} THEN "fulfilled" ELSE "pending"

\* lines 311-331: Promise.all(deferreds) settles: it rejects with the first
\* rejected promise, and is fulfilled once all are; then the second loop runs
SecondPass ==
    /\ rulesPc = "inlining"
    /\ IF \E t \in 1..Len(deferreds) : DeferredState(deferreds[t].stage) = "rejected"
       THEN /\ rulesPc' = "rejected"
            /\ UNCHANGED <<ret, errorsLogged>>
       ELSE /\ \A t \in 1..Len(deferreds) : DeferredState(deferreds[t].stage) = "fulfilled"
            /\ ret' = CollectedRules(1)
            /\ errorsLogged' = errorsLogged
                  + Cardinality({ s \in 1..Len(styleSheets) : ~styleSheets[s].readable })
            /\ rulesPc' = "collected"
    /\ UNCHANGED <<styleSheets, initialSheets, deferreds, fetchVars, notRules>>

InitRules ==
    /\ CacheIdle /\ EmbedIdle /\ ParseIdle /\ FetchIdle /\ ResolveIdle /\ WebIdle
    /\ styleSheets \in Documents
    /\ initialSheets = styleSheets
    /\ deferreds = <<>>
    /\ ret = <<>>
    /\ rulesPc = "called"
    /\ errorsLogged = 0

NextRules ==
    \/ GetCSSRulesStart
    \/ CssSettle
    \/ \E t \in 1..Len(deferreds) : TaskMetadata(t)
    \/ \E t \in 1..Len(deferreds) : TaskFetchFailed(t)
    \/ \E t \in 1..Len(deferreds) : TaskEmbedFailed(t)
    \/ \E t \in 1..Len(deferreds) : TaskInsertImported(t)
    \/ \E t \in 1..Len(deferreds) : TaskInsertFallback(t)
    \/ SecondPass

SpecRules == InitRules /\ [][NextRules]_vars

-----------------------------------------------------------------------------
(* embedWebFonts.ts: embedWebFonts, getWebFontCSS, parseWebFontRules and      *)
(* getWebFontRules.  A node is a record (ownerDocument, childNodes); a web-   *)
(* font rule text is "@f" "{" ... "}" with the tokens of embedFonts inside.   *)

\* @font-face{src:url(a)}, @font-face{src:url(b)}, @font-face{src:local(s)}
FontFaceA     == <<"@f", "{", "U", "a", ")", "}">>
FontFaceB     == <<"@f", "{", "U", "b", ")", "}">>
FontFaceLocal == <<"@f", "{", "s", "}">>

FontFaceRule(text) == [kind |-> "fontface", text |-> text, href |-> Null]

\* the documents embedWebFonts is run on: those of getCSSRules, and documents
\* with web-font rules
WebDocuments ==
    Documents \cup
    { <<InlineSheet(<<FontFaceRule(FontFaceA), StyleRule, FontFaceRule(FontFaceB)>>)>>,
      <<LinkedSheet(CssB, <<FontFaceRule(FontFaceLocal), FontFaceRule(FontFaceB)>>),
        InlineSheet(<<FontFaceRule(FontFaceA)>>)>> }

\* the nodes handed to embedWebFonts
ChildNode == [tag |-> "div", text |-> <<>>]
Nodes ==
    { [ownerDocument |-> d, childNodes |-> c] :
        d \in {<<"document">>, Null}, c \in {<<>>, <<ChildNode>>} }

\* the values of options.fontEmbedCSS
CallerCSS == FontFaceA \o BlockItem
FontEmbedCSSValues == {Undefined, Null, <<>>, CallerCSS}

\* the reasons a promise of this part is rejected with
NotInDocumentError == <<"Error", "Provided element is not within a Document">>
TypeErrorOfNull == <<"TypeError", "Cannot read properties of null">>
EmbedResourcesError == <<"Error", "embedResources">>

FontEmbedCSSTruthy(css) == css # Null /\ css # Undefined /\ css # <<>>

\* line 390: options.fontEmbedCSS != null
FontEmbedCSSGiven(css) == css # Null /\ css # Undefined

\* lines 346-351: what the executor of parseWebFontRules does, in order: the
\* calls of reject and resolve, and an exception thrown inside the executor
\* (which the Promise constructor turns into a call of reject)
ExecutorSteps(node) ==
    IF node.ownerDocument = Null
    THEN <<[call |-> "reject", value |-> NotInDocumentError],
           [call |-> "reject", value |-> TypeErrorOfNull]>>
    ELSE <<[call |-> "resolve", value |-> <<"styleSheets">>]>>

LastSettlement(steps) == steps[Len(steps)]

\* a promise is settled by the first call of resolve or reject; later calls
\* have no effect
Settlement(steps) == Head(steps)

\* line 336: rule.type === CSSRule.FONT_FACE_RULE
IsFontFaceRule(rule) == rule.kind = "fontface"

\* line 337: shouldEmbed(rule.style.getPropertyValue('src')): the src value
\* holds a url(...) term
shouldEmbed(rule) == \E i \in 1..Len(rule.text) : rule.text[i] = "U"

\* lines 334-338: getWebFontRules, as the positions it keeps of cssRules
RECURSIVE KeptFrom(_, _)
KeptFrom(cssRules, i) ==
    IF i > Len(cssRules) THEN <<>>
    ELSE (IF IsFontFaceRule(cssRules[i]) /\ shouldEmbed(cssRules[i]) THEN <<i>> ELSE <<>>)
            \o KeptFrom(cssRules, i + 1)

getWebFontRules(cssRules) ==
    [k \in 1..Len(KeptFrom(cssRules, 1)) |-> cssRules[KeptFrom(cssRules, 1)[k]]]

\* lines 365-367: rule.parentStyleSheet.href of the collected rules, sheet
\* after sheet, from sheet s on
RECURSIVE CollectedParents(_)
CollectedParents(s) ==
    IF s > Len(styleSheets) THEN <<>>
    ELSE (IF styleSheets[s].readable
          THEN [i \in 1..Len(styleSheets[s].cssRules) |-> styleSheets[s].href]
          ELSE <<>>)
            \o CollectedParents(s + 1)

\* lines 368-374: the text embedResources(rule.cssText, baseUrl, ...) resolves
\* with: every url(x) term becomes url(data:...X)
RECURSIVE EmbeddedText(_, _)
EmbeddedText(text, i) ==
    IF i > Len(text) THEN <<>>
    ELSE (IF i > 1 /\ text[i - 1] = "U"
          THEN <<"d", IF text[i] = "a" THEN "A" ELSE IF text[i] = "b" THEN "B" ELSE "X">>
          ELSE <<text[i]>>) \o EmbeddedText(text, i + 1)

\* line 380: cssTexts.join('\n'); "n" is a line terminator
RECURSIVE Join(_)
Join(cssTexts) ==
    IF cssTexts = <<>> THEN <<>>
    ELSE IF Len(cssTexts) = 1 THEN cssTexts[1]
    ELSE cssTexts[1] \o <<"n">> \o Join(Tail(cssTexts))

\* lines 389-393 with 363 and 346-351: embedWebFonts is called.  With
\* fontEmbedCSS the promise is Promise.resolve(options.fontEmbedCSS); without,
\* getWebFontCSS calls parseWebFontRules, whose executor runs at once
EmbedWebFontsCall ==
    /\ webPc = "called"
    /\ IF FontEmbedCSSGiven(fontEmbedCSS)
       THEN /\ webCssText' = fontEmbedCSS
            /\ webPc' = "resolved"
            /\ UNCHANGED <<sheetsEnumerated, webError, rulesPc>>
       ELSE IF Settlement(ExecutorSteps(clonedNode)).call = "reject"
       THEN /\ webError' = Settlement(ExecutorSteps(clonedNode)).value
            /\ webPc' = "rejected"
            /\ UNCHANGED <<sheetsEnumerated, webCssText, rulesPc>>
       ELSE /\ sheetsEnumerated' = sheetsEnumerated + 1
            /\ webPc' = "harvested"
            /\ rulesPc' = "called"
            /\ UNCHANGED <<webCssText, webError>>
    /\ UNCHANGED <<clonedNode, fontEmbedCSS, fontTasks, styleSheets, initialSheets,
                   deferreds, ret, errorsLogged, notWeb>>

\* lines 353-354, 363-377: getCSSRules has resolved; getWebFontRules filters
\* the rules and one embedResources task is started per rule
GetWebFontRulesThen ==
    /\ webPc = "harvested"
    /\ rulesPc = "collected"
    /\ fontTasks' =
          [k \in 1..Len(KeptFrom(ret, 1)) |->
              [cssText |-> getWebFontRules(ret)[k].text,
               baseUrl |-> CollectedParents(1)[KeptFrom(ret, 1)[k]],
               state |-> "pending", order |-> 0]]
    /\ webPc' = "embedding"
    /\ UNCHANGED <<clonedNode, fontEmbedCSS, sheetsEnumerated, webCssText, webError,
                   rulesVars, notWeb>>

\* an embedResources task resolves; order is its place among the completions
EmbedResourcesResolve(k) ==
    /\ webPc \in {"embedding", "rejected"}
    /\ fontTasks[k].state = "pending"
    /\ fontTasks' = [fontTasks EXCEPT
                       ![k].state = "fulfilled",
                       ![k].order = 1 + Cardinality({ j \in 1..Len(fontTasks) :
                                                        fontTasks[j].state # "pending" })]
    /\ UNCHANGED <<clonedNode, fontEmbedCSS, sheetsEnumerated, webCssText, webError,
                   webPc, rulesVars, notWeb>>

\* an embedResources task rejects: Promise.all rejects with the first
\* rejection, and so do getWebFontCSS and embedWebFonts
EmbedResourcesReject(k) ==
    /\ webPc \in {"embedding", "rejected"}
    /\ fontTasks[k].state = "pending"
    /\ fontTasks' = [fontTasks EXCEPT
                       ![k].state = "rejected",
                       ![k].order = 1 + Cardinality({ j \in 1..Len(fontTasks) :
                                                        fontTasks[j].state # "pending" })]
    /\ webPc' = "rejected"
    /\ webError' = IF webPc = "rejected" THEN webError ELSE EmbedResourcesError
    /\ UNCHANGED <<clonedNode, fontEmbedCSS, sheetsEnumerated, webCssText,
                   rulesVars, notWeb>>

PromiseAllByCompletion(ts) ==
    [i \in 1..Len(ts) |->
        EmbeddedText(ts[CHOOSE k \in 1..Len(ts) : ts[k].order = i].cssText, 1)]

\* lines 363-377: Promise.all(rules.map(...)) is fulfilled with the values of
\* the tasks in the order of the promises it was given
PromiseAllValues(ts) ==
    [k \in 1..Len(ts) |-> EmbeddedText(ts[k].cssText, 1)]

\* lines 377-380: every task is fulfilled; getWebFontCSS resolves with the join
JoinThen ==
    /\ webPc = "embedding"
    /\ \A k \in 1..Len(fontTasks) : fontTasks[k].state = "fulfilled"
    /\ webCssText' = Join(PromiseAllValues(fontTasks))
    /\ webPc' = "resolved"
    /\ UNCHANGED <<clonedNode, fontEmbedCSS, sheetsEnumerated, fontTasks, webError,
                   rulesVars, notWeb>>

\* lines 393-406: the style node with the text is made the first child
InsertStyleNode ==
    /\ webPc = "resolved"
    /\ clonedNode' = [clonedNode EXCEPT
                        !.childNodes = <<[tag |-> "style", text |-> webCssText]>> \o @]
    /\ webPc' = "inserted"
    /\ UNCHANGED <<fontEmbedCSS, sheetsEnumerated, fontTasks, webCssText, webError,
                   rulesVars, notWeb>>

InitWebFonts ==
    /\ CacheIdle /\ EmbedIdle /\ ParseIdle /\ FetchIdle /\ ResolveIdle
    /\ styleSheets \in WebDocuments
    /\ initialSheets = styleSheets
    /\ deferreds = <<>>
    /\ ret = <<>>
    /\ rulesPc = "idle"
    /\ errorsLogged = 0
    /\ clonedNode \in Nodes
    /\ fontEmbedCSS \in FontEmbedCSSValues
    /\ sheetsEnumerated = 0
    /\ fontTasks = <<>>
    /\ webCssText = NotYet
    /\ webError = Null
    /\ webPc = "called"

NextWebFonts ==
    \/ EmbedWebFontsCall
    \/ NextRules
    \/ GetWebFontRulesThen
    \/ \E k \in 1..Len(fontTasks) : EmbedResourcesResolve(k)
    \/ \E k \in 1..Len(fontTasks) : EmbedResourcesReject(k)
    \/ JoinThen
    \/ InsertStyleNode

SpecWebFonts == InitWebFonts /\ [][NextWebFonts]_vars

-----------------------------------------------------------------------------
(* Properties of the Resource Cache *)

\* number of network requests issued for a cache key
RequestsFor(key) == Cardinality({i \in 1..Len(requests) : requests[i].key = key})

\* C1: at most one network request is ever issued per cache key; an entry,
\* once stored, stays in the cache and keeps pointing at the same future; a
\* call whose key already has an entry (in flight or settled) returns that
\* stored future and issues no request.
C1_AtMostOneRequestPerKey ==
    /\ \A i, j \in 1..Len(requests) : requests[i].key = requests[j].key => i = j
    /\ \A id \in 1..Len(futures) :
          /\ futures[id].key \in DOMAIN cache
          /\ cache[futures[id].key] = id
    /\ lastCall.had # 0 => lastCall.returned = lastCall.had /\ ~lastCall.issued

\* a second caller found the first caller's request still in flight
C1_Witness ==
    /\ nCalls = 2
    /\ lastCall.had # 0
    /\ futures[lastCall.had].stage = "fetching"
    /\ lastCall.url # StripQuery(futures[lastCall.had].url)
    /\ Len(requests) = 1

\* C2: a resource whose fetch failed is never retried: its entry stays in the
\* cache, exactly one request was ever issued for its key, its value stays the
\* placeholder computed from the first caller's options, and a later call with
\* that key returns this same future without a request.
C2_FailureIsCached ==
    \A id \in 1..Len(futures) :
        futures[id].outcome \in Reasons =>
            /\ futures[id].stage = "fulfilled"
            /\ futures[id].value = FailedMetadata(futures[id].imagePlaceholder)
            /\ futures[id].key \in DOMAIN cache
            /\ cache[futures[id].key] = id
            /\ RequestsFor(futures[id].key) = 1
            /\ lastCall.key = futures[id].key /\ lastCall.had # 0 =>
                  lastCall.returned = id /\ ~lastCall.issued

\* a call made after the failure got the failed future back
C2_Witness ==
    /\ lastCall.had # 0
    /\ futures[lastCall.had].outcome \in Reasons
    /\ lastCall.returned = lastCall.had
    /\ futures[lastCall.returned].value.blob = <<"p">>

\* the text after the first comma of s, empty if s has no comma
AfterFirstComma(s) ==
    IF IndexOf(s, ",") = 0 THEN <<>> ELSE SubSeq(s, IndexOf(s, ",") + 1, Len(s))

\* the second comma-separated field of s: the text between its first and its
\* second comma, or all the text after the first comma when there is only one
SecondField(s) ==
    LET rest == AfterFirstComma(s)
    IN  IF IndexOf(rest, ",") = 0 THEN rest ELSE SubSeq(rest, 1, IndexOf(rest, ",") - 1)

\* C3 (as amended): the future never rejects; on a network error, a timeout or
\* a decode error it is fulfilled with contentType "" and, as content, the
\* second comma-separated field of imagePlaceholder (empty if there is none).
C3_FailureResolvesWithSecondField ==
    \A id \in 1..Len(futures) :
        /\ futures[id].stage \in {"fetching", "reading", "fulfilled"}
        /\ futures[id].outcome \in Reasons =>
              /\ futures[id].stage = "fulfilled"
              /\ futures[id].value = [blob |-> SecondField(futures[id].imagePlaceholder),
                                      contentType |-> ""]

\* a read error after a response that had a Content-Type, under a placeholder
C3_Witness ==
    \E id \in 1..Len(futures) :
        /\ futures[id].outcome = "ProgressEvent"
        /\ futures[id].imagePlaceholder = <<"d", ",", "p", ",", "q">>
        /\ futures[id].value = [blob |-> <<"p">>, contentType |-> ""]

\* C3 (as stated): on failure the content is the text after the first comma of
\* imagePlaceholder.
C3_ContentIsTextAfterFirstComma ==
    \A id \in 1..Len(futures) :
        futures[id].outcome \in Reasons =>
            futures[id].value = [blob |-> AfterFirstComma(futures[id].imagePlaceholder),
                                 contentType |-> ""]

\* the last element of a non-empty sequence
Last(seq) == seq[Len(seq)]

\* the URL up to its query string, its final path segment, and its extension
PathOf(url) == Split(url, "?")[1]
Basename(url) == Last(Split(PathOf(url), "/"))
ExtensionOf(url) ==
    LET parts == Split(Basename(url), ".")
    IN  IF Len(parts) < 2 THEN <<>> ELSE Last(parts)

FontExtensions ==
    { <<"t", "t", "f">>, <<"o", "t", "f">>, <<"e", "o", "t">>,
      <<"w", "o", "f", "f">>, <<"w", "o", "f", "f", "2">> }

HasFontExtension(url) == ExtensionOf(url) \in FontExtensions

\* C4 (as amended): for a font-extension URL the key is the basename when
\* includeQueryParams is unset, so font URLs with one basename on different
\* hosts share one key and one request; when includeQueryParams is set the
\* key is the text after the last "/" of the URL with its query string (the
\* basename followed by the query string, unless the query contains a "/").
C4_FontKeyIsLastSegment ==
    nCalls > 0 /\ HasFontExtension(lastCall.url) =>
        /\ ~lastCall.includeQueryParams =>
              /\ lastCall.key = Basename(lastCall.url)
              /\ RequestsFor(Basename(lastCall.url)) = 1
        /\ lastCall.includeQueryParams => lastCall.key = Last(Split(lastCall.url, "/"))

\* the same font file name on two hosts: the second call shares the first's fetch
C4_Witness ==
    /\ nCalls = 2
    /\ lastCall.url = FontOther
    /\ ~lastCall.includeQueryParams
    /\ lastCall.had = 1
    /\ futures[1].url = FontCdn
    /\ lastCall.key = <<"a", ".", "t", "t", "f">>
    /\ Len(requests) = 1

\* C4 (as stated): with includeQueryParams set the key of a font URL is the
\* full URL including its query string.
C4_FontKeyIsFullUrlWithQuery ==
    nCalls > 0 /\ HasFontExtension(lastCall.url) /\ lastCall.includeQueryParams =>
        lastCall.key = lastCall.url

\* C5: for a URL without a font extension the key is the URL with only its
\* query string stripped (the whole URL under includeQueryParams), and the
\* future a caller gets back was fetched from the caller's own resource.
C5_NonFontKeyKeepsHostAndPath ==
    nCalls > 0 /\ ~HasFontExtension(lastCall.url) =>
        /\ lastCall.key =
              IF lastCall.includeQueryParams THEN lastCall.url ELSE PathOf(lastCall.url)
        /\ PathOf(futures[lastCall.returned].url) = PathOf(lastCall.url)

\* C11: cacheBust changes only the URL of the network request (a timestamp
\* query parameter is appended), never the cache key: the key of a call is the
\* key of its URL whether or not cacheBust is set, and a call with cacheBust
\* set for a resource that is already cached issues no request.
C11_CacheBustKeepsKey ==
    nCalls > 0 =>
        /\ lastCall.key = getCacheKey(lastCall.url, lastCall.includeQueryParams)
        /\ lastCall.had # 0 => ~lastCall.issued /\ lastCall.returned = lastCall.had
        /\ lastCall.issued =>
              /\ requests[Len(requests)].key = lastCall.key
              /\ requests[Len(requests)].url =
                    IF lastCall.cacheBust THEN CacheBustUrl(lastCall.url) ELSE lastCall.url
        /\ \A k \in DOMAIN cache : RequestsFor(k) = 1

\* two calls for the same resource, both with cacheBust set and the query kept
\* in the key: the first one requested the time-stamped URL, the second one
\* found the entry and requested nothing
C11_Witness ==
    /\ nCalls = 2
    /\ lastCall.cacheBust
    /\ lastCall.includeQueryParams
    /\ lastCall.url = FontCdn
    /\ lastCall.had = 1
    /\ ~lastCall.issued
    /\ Len(requests) = 1
    /\ requests[1].url = CacheBustUrl(FontCdn)
    /\ requests[1].key = getCacheKey(FontCdn, TRUE)

\* number of requests fetchCSS issued for a URL
CssRequestsFor(url) == Cardinality({i \in 1..Len(cssRequests) : cssRequests[i] = url})

\* C12: fetchCSS is keyed and deduplicated by the exact URL string: at most one
\* request is issued per distinct URL, every call with that URL gets the one
\* future stored for it, also once that future has failed, and URLs that
\* differ in any character have separate entries and separate requests.
C12_FetchCSSKeyedByExactUrl ==
    /\ \A url \in CssURLs :
          /\ CssRequestsFor(url) <= 1
          /\ CssRequestsFor(url) = 1 <=> url \in DOMAIN cssFetchCache
    /\ \A url \in DOMAIN cssFetchCache : cssFutures[cssFetchCache[url]].url = url
    /\ nFetches > 0 =>
          /\ cssFutures[lastFetch.returned].url = lastFetch.url
          /\ lastFetch.had # 0 => lastFetch.returned = lastFetch.had /\ ~lastFetch.issued
          /\ lastFetch.had = 0 => lastFetch.issued /\ cssRequests[Len(cssRequests)] = lastFetch.url

\* a.css and a.css?1 were both requested, the request for a.css failed, and a
\* later call for a.css got the failed future back
C12_Witness ==
    /\ nFetches = 3
    /\ cssRequests = <<CssA, CssAQuery>>
    /\ lastFetch.url = CssA
    /\ lastFetch.had = 1
    /\ lastFetch.returned = 1
    /\ cssFutures[1].outer = "rejected"

-----------------------------------------------------------------------------
(* Properties of resolveUrl *)

\* the reference starts with letters, ":" and "//"
HasSchemeAndSlashes(url) ==
    \E n \in 1..Len(url) :
        /\ \A k \in 1..n : url[k] \in LetterRuns
        /\ OccursAt(url, <<":", "/", "/">>, n + 1)

\* the reference starts with "//"
IsProtocolRelative(url) == OccursAt(url, <<"/", "/">>, 1)

\* the reference starts with letters and ":"
HasScheme(url) ==
    \E n \in 1..Len(url) :
        /\ \A k \in 1..n : url[k] \in LetterRuns
        /\ OccursAt(url, <<":">>, n + 1)

-----------------------------------------------------------------------------
(* Properties of embedFonts *)

\* text with the references of refs whose index is in D, from the k-th down to
\* the first, replaced at their own positions by their own embedded payloads
RECURSIVE EmbedAtPositions(_, _, _, _)
EmbedAtPositions(text, refs, k, D) ==
    IF k = 0 THEN text
    ELSE LET r == refs[k]
             own == EmbeddedRef(resolveUrl(ExtractUrl(r.loc), MetaUrl, PageProtocol))
             next == IF k \in D
                     THEN SubSeq(text, 1, r.start - 1) \o own
                             \o SubSeq(text, r.start + Len(r.loc), Len(text))
                     ELSE text
         IN  EmbedAtPositions(next, refs, k - 1, D)

\* the style sheet with exactly the references in D embedded, the others as
\* they were
ExpectedText(D) ==
    EmbedAtPositions(raw, MatchUrlRefs(raw, 1), Len(MatchUrlRefs(raw, 1)), D)

\* D1 and D2 hold as many references of each url(...) text
SameReferences(D1, D2) ==
    \A i \in 1..Len(tasks) :
        Cardinality({j \in D1 : tasks[j].loc = tasks[i].loc})
            = Cardinality({j \in D2 : tasks[j].loc = tasks[i].loc})

\* the text returned has the references that completed embedded and the others
\* left as they were (which of several identical references is not told apart)
ReturnedEmbedsCompleted ==
    \E D \in SUBSET (1..Len(tasks)) :
        SameReferences(D, doneAtReturn) /\ returned = ExpectedText(D)

\* C6: with two distinct url(...) references whose fetches both complete, in
\* either order, the returned text has each reference replaced by its own
\* payload.
C6_EachReferenceGetsItsOwnPayload ==
    /\ settledBy = "all"
    /\ Len(tasks) = 2
    /\ tasks[1].loc # tasks[2].loc
    /\ doneAtReturn = {1, 2}
    => returned = ExpectedText({1, 2})

\* C7: when the timer settles the race with all references but one completed,
\* embedFonts has resolved, with the completed references embedded and the
\* unresolved one left as its original text, whatever completes later.
C7_TimeoutReturnsCompletedOnly ==
    /\ timerFired => returned # NotYet
    /\ settledBy = "timeout" /\ Cardinality(doneAtReturn) = Len(tasks) - 1
          => ReturnedEmbedsCompleted

\* C8: when the fetch or the decode of a reference has failed, the failure is
\* logged and the returned text has that reference as it was and every
\* reference that completed embedded.
C8_FailedReferenceLeftAsIs ==
    /\ \A i \in 1..Len(tasks) : tasks[i].stage = "failed" => tasks[i].warned
    /\ settledBy = "all" /\ (\E i \in 1..Len(tasks) : tasks[i].stage = "failed")
          => ReturnedEmbedsCompleted

DuplicatedLocs ==
    LET refs == MatchUrlRefs(raw, 1)
        matched(loc) == Cardinality({ i \in 1..Len(refs) : refs[i].loc = loc })
        occurring(loc) == Cardinality({ p \in 1..Len(raw) : OccursAt(raw, loc, p) })
    IN  { loc \in { refs[i].loc : i \in 1..Len(refs) } :
            matched(loc) >= 2 /\ occurring(loc) = matched(loc) }

\* embedFonts has returned because every task settled, and every task succeeded
AllFetchesSucceeded ==
    /\ settledBy = "all"
    /\ tasks # <<>>
    /\ doneAtReturn = 1..Len(tasks)

-----------------------------------------------------------------------------
(* Properties of parseCSS *)

\* positions of the keyframes blocks in the normalised text, in source order
KeyframesPositions == { i \in 1..Len(normalized) : normalized[i] = "K" }

SpansCovering(k) ==
    LET startOf(i) == Cardinality({ j \in 1..resultAt[i] : normalized[j] # "K" })
    IN  { i \in (Cardinality(KeyframesPositions) + 1)..Len(result) :
            startOf(i) <= k /\ k < startOf(i) + Len(result[i]) }

\* C17: in the scan with the shared cursor every @import statement and every
\* general block of the working text is recorded exactly once: each "@import"
\* and each opening brace of the working text lies in exactly one recorded
\* span; in particular no block between the cursor and a later @import
\* statement is skipped.
C17_EveryStatementAndBlockRecordedOnce ==
    pc = "done" /\ source # Null =>
        \A k \in 1..Len(parseText) :
            parseText[k] \in {"@i", "{"} => Cardinality(SpansCovering(k)) = 1

\* the cursors of the three regular expressions lie within the text
CursorsWithinText ==
    /\ keyframesIndex \in 0..Len(parseText)
    /\ importIndex \in 0..Len(parseText)
    /\ unifiedIndex \in 0..Len(parseText)
    /\ pc = "scan" => importIndex = unifiedIndex

\* what one step of parseCSS does to the cursors and the result
ParseAdvances ==
    /\ pc # "done"
    /\ pc = "idle" /\ source \in {Null, Undefined} => pc' = "done" /\ result' = <<>>
    /\ pc = "idle" /\ source \notin {Null, Undefined} => pc' = "keyframes"
    /\ pc = "keyframes" =>
          IF KeyframesExec(parseText, keyframesIndex).found
          THEN /\ pc' = "keyframes"
               /\ Len(result') = Len(result) + 1
               /\ result'[Len(result')] # <<>>
               /\ keyframesIndex' > keyframesIndex
          ELSE pc' = "scan" /\ result' = result
    /\ pc = "scan" =>
          IF \/ ImportExec(parseText, importIndex).found
             \/ UnifiedExec(parseText, unifiedIndex).found
          THEN /\ pc' = "scan"
               /\ Len(result') = Len(result) + 1
               /\ result'[Len(result')] # <<>>
               /\ importIndex' > importIndex
               /\ unifiedIndex' > unifiedIndex
          ELSE pc' = "done" /\ result' = result

\* C22: parseCSS terminates on every input: an iteration of the keyframes
\* loop or of the import/general-block loop that records a block records a
\* non-empty one and moves the cursor of the loop (of both regular
\* expressions, in the second loop) strictly forward within the text; the
\* first iteration in which no pattern matches ends the loop; a null or
\* undefined source gives the empty list without entering a loop.
C22_ParseCSSTerminates ==
    [](CursorsWithinText) /\ [][ParseAdvances]_vars

\* C22 witness: parseCSS has returned three blocks, recorded by both loops: a
\* keyframes block, an @import statement and a general block
C22_Witness ==
    /\ pc = "done"
    /\ source = ImportItem \o KeyframesItem \o SpaceItem \o BlockItem
    /\ result = <<KeyframesItem, ImportItem, SpaceItem \o BlockItem>>

-----------------------------------------------------------------------------
(* Properties of getCSSRules *)

\* the rule blocks recovered from the text a task fetched
BlocksOf(t) == parseCSS(RemoteTextOf(cssFutures[deferreds[t].future].url))

\* the task's style-sheet text was fetched and read
TextArrived(t) == cssFutures[deferreds[t].future].cssText = "fulfilled"

\* C18: for a sheet whose rule list cannot be read and which has a URL, every
\* rule block extracted from the fetched text is inserted into the first
\* sheet without href (or the document's first sheet), so those rules are in
\* that sheet when the second pass collects the rules.
C18_FallbackInsertsEveryBlock ==
    rulesPc = "collected" =>
        \A t \in 1..Len(deferreds) :
            deferreds[t].path = "fallback" /\ TextArrived(t) =>
                /\ \A k \in 1..Len(BlocksOf(t)) :
                      WellFormed(BlocksOf(t)[k]) => k \in deferreds[t].inserted
                /\ Len(styleSheets[deferreds[t].inline].cssRules)
                      >= Len(initialSheets[deferreds[t].inline].cssRules)
                           + Cardinality({ k \in 1..Len(BlocksOf(t)) : WellFormed(BlocksOf(t)[k]) })

\* the rules made of the blocks of a list that are (or are not) @import blocks
RulesAmong(blocks, imports) ==
    LET chosen == SelectSeq(blocks, LAMBDA b : StartsWithImport(Trim(b)) = imports)
    IN  [i \in 1..Len(chosen) |-> RuleOf(chosen[i])]

\* C19: when the @import rule at index i of a sheet is inlined, the recovered
\* @import blocks are inserted directly after it, one after the other, none
\* of them rejected, and every other recovered block is appended at the end
\* of the sheet in extracted order.
C19_ImportsAtImportPositionOthersAtEnd ==
    /\ rulesPc = "collected"
    /\ Len(deferreds) = 1
    /\ deferreds[1].path = "import"
    /\ TextArrived(1)
    /\ \A k \in 1..Len(BlocksOf(1)) : WellFormed(BlocksOf(1)[k])
    => LET before == initialSheets[deferreds[1].sheet].cssRules
           at == deferreds[1].importIndex
       IN  /\ deferreds[1].threw = {}
           /\ styleSheets[deferreds[1].sheet].cssRules =
                 SubSeq(before, 1, at) \o RulesAmong(BlocksOf(1), TRUE)
                    \o SubSeq(before, at + 1, Len(before)) \o RulesAmong(BlocksOf(1), FALSE)

\* C20: an insertion that throws on one recovered block does not end the pass,
\* on the import path and on the fallback path alike: every later block of the
\* same text is still handed to insertRule (and is inserted unless it is
\* rejected itself).
C20_InsertionFailureSkipsOneBlock ==
    rulesPc = "collected" =>
        \A t \in 1..Len(deferreds) :
            TextArrived(t) =>
                \A k \in deferreds[t].threw :
                    \A j \in (k + 1)..Len(BlocksOf(t)) :
                        j \in deferreds[t].inserted \cup deferreds[t].threw

\* how often x stands in seq
Occurrences(seq, x) == Cardinality({ i \in 1..Len(seq) : seq[i] = x })

\* the rules the readable sheets had when getCSSRules was called, sheet after
\* sheet, from sheet s on
RECURSIVE InitialRules(_)
InitialRules(s) ==
    IF s > Len(initialSheets) THEN <<>>
    ELSE (IF initialSheets[s].readable THEN initialSheets[s].cssRules ELSE <<>>)
            \o InitialRules(s + 1)

\* the number of blocks the tasks inserted that made the rule x
InsertedAs(x) ==
    Cardinality({ tk \in UNION { {<<t, k>> : k \in deferreds[t].inserted} :
                                   t \in 1..Len(deferreds) } :
                    RuleOf(BlocksOf(tk[1])[tk[2]]) = x })

\* a task that failed on the import path, or that belongs to an unreadable
\* sheet, has put no rule into any sheet
FailedTasksInsertNothing ==
    \A t \in 1..Len(deferreds) :
        (~TextArrived(t) \/ ~initialSheets[deferreds[t].sheet].readable) =>
            deferreds[t].inserted = {}

\* the second pass has run after every task settled, and its list holds
\* exactly the rules the readable sheets had at the start and the rules the
\* tasks inserted
CollectedAfterAllSettled ==
    /\ rulesPc # "rejected"
    /\ rulesPc = "collected" =>
          /\ \A t \in 1..Len(deferreds) : deferreds[t].stage \in {"done", "failed"}
          /\ FailedTasksInsertNothing
          /\ \A x \in {ret[i] : i \in 1..Len(ret)}
                    \cup {InitialRules(1)[i] : i \in 1..Len(InitialRules(1))} :
                 Occurrences(ret, x) = Occurrences(InitialRules(1), x) + InsertedAs(x)
          /\ \A t \in 1..Len(deferreds) : \A k \in deferreds[t].inserted :
                 Occurrences(ret, RuleOf(BlocksOf(t)[k])) > 0
    /\ rulesPc # "collected" => ret = <<>>

\* a request of fetchCSS is unanswered: the fetch, the blob or the read is
\* still under way
Unanswered(f) == f.outer = "pending" \/ f.cssText \in {"blob", "reading"}

\* a callback of the task is due: its fetch or its text has settled and the
\* task has not yet taken note
CallbackDue(t) ==
    \/ deferreds[t].stage = "fetching"
          /\ cssFutures[deferreds[t].future].outer \in {"fulfilled", "rejected"}
    \/ deferreds[t].stage = "embedding"
          /\ cssFutures[deferreds[t].future].cssText \in {"fulfilled", "rejected"}

\* while getCSSRules is inlining, something is still to happen: a request is
\* unanswered, a callback is due, or every task has settled and the second
\* pass is due
SomethingDue ==
    rulesPc = "inlining" =>
        \/ \E id \in 1..Len(cssFutures) : Unanswered(cssFutures[id])
        \/ \E t \in 1..Len(deferreds) : CallbackDue(t)
        \/ \A t \in 1..Len(deferreds) : deferreds[t].stage \in {"done", "failed"}

\* the steps the requests and the tasks still have before them
RECURSIVE StepsLeft(_, _)
StepsLeft(fs, ts) ==
    IF fs # <<>>
    THEN (IF Head(fs).outer = "pending" THEN 3
          ELSE IF Head(fs).cssText = "blob" THEN 2
          ELSE IF Head(fs).cssText = "reading" THEN 1 ELSE 0) + StepsLeft(Tail(fs), ts)
    ELSE IF ts # <<>>
    THEN (IF Head(ts).stage = "fetching" THEN 2
          ELSE IF Head(ts).stage = "embedding" THEN 1 ELSE 0) + StepsLeft(fs, Tail(ts))
    ELSE 0

\* every step of getCSSRules brings it nearer to its resolution
StepTowardsResolution ==
    /\ rulesPc = "called" => rulesPc' = "inlining"
    /\ rulesPc = "inlining" =>
          \/ rulesPc' = "collected"
          \/ rulesPc' = "inlining"
                /\ StepsLeft(cssFutures', deferreds') < StepsLeft(cssFutures, deferreds)
    /\ rulesPc \in {"called", "inlining"}

-----------------------------------------------------------------------------
(* Properties of embedWebFonts and getWebFontCSS *)

\* the node has no style node among its children
NoStyleNode == \A i \in 1..Len(clonedNode.childNodes) : clonedNode.childNodes[i].tag # "style"

\* C13: when options.fontEmbedCSS is supplied (a string, the empty one
\* included), embedWebFonts never extracts: it resolves, the style node it
\* inserts as first child holds exactly the caller's text, the style sheets
\* are never enumerated and stay as they were, getCSSRules is never called,
\* no request is issued by fetchCSS, getBlobFromURL or embedFonts, and the
\* Resource Cache and the style-sheet fetch cache stay as they were.
C13_FontEmbedCSSBypassesExtraction ==
    fontEmbedCSS \notin {Undefined, Null} =>
        /\ webPc \in {"called", "resolved", "inserted"}
        /\ webPc = "inserted" =>
              /\ Head(clonedNode.childNodes) = [tag |-> "style", text |-> fontEmbedCSS]
              /\ Tail(clonedNode.childNodes) \in {<<>>, <<ChildNode>>}
        /\ webPc # "inserted" => NoStyleNode
        /\ webPc # "called" => webCssText = fontEmbedCSS
        /\ sheetsEnumerated = 0
        /\ styleSheets = initialSheets
        /\ rulesPc = "idle" /\ deferreds = <<>> /\ fontTasks = <<>>
        /\ cssRequests = <<>> /\ requests = <<>> /\ fetched = <<>>
        /\ cache = <<>> /\ cssFetchCache = <<>>

\* C13 witness: embedWebFonts has inserted the caller's CSS before the child
\* of a node, in a document whose sheets hold an @import rule
C13_Witness ==
    /\ fontEmbedCSS = CallerCSS
    /\ webPc = "inserted"
    /\ clonedNode.childNodes = <<[tag |-> "style", text |-> CallerCSS], ChildNode>>
    /\ styleSheets = <<InlineSheet(<<ImportRule(CssA), StyleRule>>)>>
    /\ cssRequests = <<>>

\* C14: when the node is not attached to a document and no fontEmbedCSS is
\* given, getWebFontCSS rejects with the error 'Provided element is not within
\* a Document'; nothing catches it, so embedWebFonts rejects with it as well
\* and inserts no style node; the style sheets are never enumerated, fetched
\* or modified.
C14_DetachedNodeRejects ==
    (clonedNode.ownerDocument = Null /\ fontEmbedCSS \in {Undefined, Null}
       /\ webPc # "called") =>
        /\ webPc = "rejected"
        /\ webError = NotInDocumentError
        /\ webCssText = NotYet
        /\ NoStyleNode
        /\ sheetsEnumerated = 0
        /\ styleSheets = initialSheets
        /\ rulesPc = "idle" /\ deferreds = <<>> /\ fontTasks = <<>>
        /\ cssRequests = <<>> /\ cssFetchCache = <<>>

\* C14 witness: getWebFontCSS has rejected for a detached node, in a document
\* with a cross-origin sheet
C14_Witness ==
    /\ clonedNode.ownerDocument = Null
    /\ fontEmbedCSS = Undefined
    /\ webPc = "rejected"
    /\ webError = NotInDocumentError
    /\ \E s \in 1..Len(styleSheets) : ~styleSheets[s].readable

\* the web-font rules of the collected list, in the order of the list
RECURSIVE WebFontRulesOf(_)
WebFontRulesOf(rules) ==
    IF rules = <<>> THEN <<>>
    ELSE (IF Head(rules).kind = "fontface" /\ "U" \in {Head(rules).text[i] :
                                                          i \in 1..Len(Head(rules).text)}
          THEN <<Head(rules)>> ELSE <<>>) \o WebFontRulesOf(Tail(rules))

\* the embedded texts of the rules, each followed by a newline but the last
RECURSIVE NewlineJoined(_)
NewlineJoined(rules) ==
    IF rules = <<>> THEN <<>>
    ELSE EmbeddedText(Head(rules).text, 1)
            \o (IF Len(rules) > 1 THEN <<"n">> ELSE <<>>) \o NewlineJoined(Tail(rules))

\* C23: without fontEmbedCSS, the text getWebFontCSS resolves with is the
\* embedded texts of the web-font rules joined by newlines in the order of
\* the list getWebFontRules returned, whatever the order in which the
\* embedResources tasks completed; and once one of the tasks has rejected,
\* getWebFontCSS is rejected and yields no text.
C23_JoinedInRuleOrderRejectsOnAnyFailure ==
    fontEmbedCSS \in {Undefined, Null} =>
        /\ webPc \in {"resolved", "inserted"} =>
              /\ \A k \in 1..Len(fontTasks) : fontTasks[k].state = "fulfilled"
              /\ Len(fontTasks) = Len(WebFontRulesOf(ret))
              /\ webCssText = NewlineJoined(WebFontRulesOf(ret))
        /\ (\E k \in 1..Len(fontTasks) : fontTasks[k].state = "rejected") =>
              /\ webPc = "rejected"
              /\ webError = EmbedResourcesError
              /\ webCssText = NotYet
              /\ NoStyleNode

\* C23 witness: two web-font rules; the task of the second completed before
\* the task of the first, and getWebFontCSS has resolved
C23_Witness ==
    /\ fontEmbedCSS = Undefined
    /\ webPc = "resolved"
    /\ Len(fontTasks) = 2
    /\ fontTasks[1].cssText # fontTasks[2].cssText
    /\ fontTasks[2].order = 1 /\ fontTasks[1].order = 2
    /\ webCssText = EmbeddedText(FontFaceA, 1) \o <<"n">> \o EmbeddedText(FontFaceB, 1)

\* the loops of parseCSS, run step by step, end with the list parseCSS returns
ParseStepsAgree == pc = "done" => result = parseCSS(source)

====
